---- MODULE Spec2Model ----
(***************************************************************************)
(* Model of the GTest plugin's incremental build decision                  *)
(* (src/src/buildManager.ts): the staleness record kept in globalState,    *)
(* the filesystem modification times it is compared with, the code model   *)
(* delivered by the build service, and ensureBuilt with its two awaits     *)
(* (configure, build); and of the test runner (src/src/testRunner.ts)      *)
(* with the result store it writes (testStore.ts): a run or debug request  *)
(* from its call through ensureBuilt, the spawned process and its two      *)
(* output streams to the parsed statuses.                                  *)
(***************************************************************************)
EXTENDS Integers, Sequences, FiniteSets, TLC

(***************************************************************************)
(* Bounds of the model.                                                    *)
(***************************************************************************)
\* the filesystem clock stops here: at most MaxTime - 1 modifications
MaxTime == 2

(***************************************************************************)
(* Program constants.                                                      *)
(***************************************************************************)
STORAGE_KEY_CMAKE_MTIME == "gtest-plugin.lastCmakeMtime"
STORAGE_KEY_SOURCE_MTIMES == "gtest-plugin.lastSourceMtimes"

(***************************************************************************)
(* The environment: one workspace folder, the values the setting           *)
(* gtest-plugin.cmakeSourceDirectory takes, the files on disk and the code *)
(* model the build service reports for each project root.                  *)
(***************************************************************************)
WorkspaceFolder == "/a"
CustomDirs == {"", " ${workspaceFolder}/sub "}
Roots == {"/a", "/a/sub"}

SourceFiles == {"/s/t.cpp", "/s/t.c", "/s/u.CPP"}
CmakeFiles == {"/a/CMakeLists.txt", "/a/sub/CMakeLists.txt"}
Files == SourceFiles \cup CmakeFiles

\* project.codeModel.configurations[0].projects of the project at a root
CodeModelProjects(root) ==
  IF root = WorkspaceFolder
  THEN << [targets |-> <<
            [name |-> "T", type |-> "EXECUTABLE",
             fileGroups |-> << <<"/s/t.cpp">>, <<"/s/t.c">> >>,
             artifacts |-> << "/b/T" >>],
            [name |-> "U", type |-> "EXECUTABLE",
             fileGroups |-> << <<"/s/u.CPP">> >>,
             artifacts |-> << >>],
            [name |-> "L", type |-> "STATIC_LIBRARY",
             fileGroups |-> << <<"/s/u.CPP">> >>,
             artifacts |-> << "/b/libL.a" >>] >>] >>
  ELSE << [targets |-> <<
            [name |-> "T", type |-> "EXECUTABLE",
             fileGroups |-> << <<"/s/t.cpp">> >>,
             artifacts |-> << "/b/sub/T" >>] >>] >>

\* the executableNames arguments callers pass
NameLists == { <<"T">>, <<"U">>, <<"T", "U">>, <<"L">> }

Range(s) == { s[i] : i \in DOMAIN s }

(***************************************************************************)
(* The test runner's environment: the targets that are run, the names of   *)
(* the tests selected, the values of the setting gtest-plugin.gtestFilter, *)
(* what the child writes and how it ends.                                  *)
(***************************************************************************)
\* requests made at most
MaxRuns == 2
\* 'data' events of one child at most, both streams together
MaxData == 1
\* length of the name lists the pure functions are applied to
MaxNames == 3

Modes == {"run", "debug"}
Executables == {"T", "U"}
FullNameLists == { << >>, << "S.a" >>, << "S.a", "S.b" >> }
GtestFilters == {"", "X.*", "-S.c"}
Chunks == { "[  PASSED  ] S.a\n[  FAILED  ] S.b\n", "[  FAILED  ] S.a\r\n" }
\* calls made on the store directly, and subscriptions to it
MaxCalls == 2
MaxHandlers == 2
\* what the store is called with
StoreTests == { << "T", "S.a" >>, << "T", "S.b" >>, << "U", "S.a" >> }
Statuses == {"running", "passed"}
Outputs == {"x", "y"}
BulkEntry(fullName, status) == [fullName |-> fullName, status |-> status]
EntryLists ==
  { << >>,
    << BulkEntry("S.a", "passed") >>,
    << BulkEntry("S.a", "passed"), BulkEntry("S.b", "failed") >>,
    << BulkEntry("S.a", "passed"), BulkEntry("S.a", "failed") >>,
    << BulkEntry("S.b", "failed"), BulkEntry("S.a", "failed"), BulkEntry("S.b", "passed") >> }
\* the code models the tree and the code lenses are built from: the one of
\* the workspace folder; one whose targets name a source with backslashes,
\* share a source, have no source, or are a library; and none
Target(name, type, fileGroups) ==
  [name |-> name, type |-> type, fileGroups |-> fileGroups, artifacts |-> << >>]
TreeCodeModels ==
  { CodeModelProjects(WorkspaceFolder),
    << [targets |-> << Target("E", "EXECUTABLE", << >>),
                       Target("L", "STATIC_LIBRARY", << << "/s/l.cpp", "/s/v.cpp" >> >>),
                       Target("T", "EXECUTABLE", << << "\\s\\t.cpp" >> >>) >>],
       [targets |-> << Target("V", "EXECUTABLE",
                              << << "/s/v.cpp" >>, << "/s/t.cpp" >> >>) >>] >>,
    << >> }
\* the paths of the files asked about
TreeFiles == {"/s/t.cpp", "/s/u.CPP", "\\s\\t.cpp", "/s/l.cpp", "/s/v.cpp", "/s/t.cp", "/x/s/t.cpp"}
\* the text of every file
FileText == "TEST(A, b)\nTEST_F(B_1, c)\nTEST(A, c)"
\* files scanned at most
MaxFiles == 2
\* pieces of a source text at most
MaxPieces == 2
\* the macros, and the pieces source texts are made of: a declaration on one
\* line, a declaration broken after its comma, and lines that declare
\* nothing or declare behind other text
Macros == {"TEST", "TEST_F", "TEST_P"}
Piece(macro) ==
  { << macro \o "(A, b)" >>,
    << "\t " \o macro \o " ( B_1 ,c ) {" >>,
    << macro \o "(A,", "     b) {" >> }
OtherPieces ==
  { << "" >>,
    << "// TEST(A, b)" >>,
    << "TEST_X(A, b)" >>,
    << "TEST(A.b, c)" >>,
    << "TEST_F(A, d) TEST(A, e)" >> }
Pieces == UNION { Piece(macro) : macro \in Macros } \cup OtherPieces
\* the line ends of a text
LineEnds == {"\n", "\r\n"}
\* debug requests: the target with its artifact path, what getBuildDirectory
\* resolves to, the values of the settings gtest-plugin.miDebuggerPath and
\* gtest-plugin.envFile, and the contents of .vscode/launch.json
DebugTargets == { << "T", "/b/sub/T" >>, << "U", "/b/U" >> }
BuildDirectories == {"undefined", "", "/b"}
MiDebuggerPathSettings == {"", " ", " /p/gdb "}
EnvFileSettings == {"", " ", "${workspaceFolder}/p.env"}
\* a configuration of launch.json; a field that is not there is "undefined"
LaunchConfig(type, program, miDebuggerPath, envFile) ==
  [type |-> type, program |-> program,
   miDebuggerPath |-> miDebuggerPath, envFile |-> envFile]
ByName == LaunchConfig("cppdbg", "${workspaceFolder}/x/T", "/l/gdb",
                       "${workspaceFolder}/l.env")
ByPath == LaunchConfig("cppdbg", "/b/sub/T", "undefined", "")
Backslashed == LaunchConfig("cppdbg", "\\b\\sub\\T", "/l/gdb2", "undefined")
OtherType == LaunchConfig("lldb", "/b/sub/T", "/l/lldb", "/l/x.env")
OtherProgram == LaunchConfig("cppdbg", "/o/V", "/l/gdb3", "/l/y.env")
NoProgram == LaunchConfig("cppdbg", "undefined", "/l/gdb4", "/l/z.env")
\* the file: missing, not JSON, JSON without a configurations array, or its
\* configurations
LaunchFile(kind, configurations) ==
  [kind |-> kind, configurations |-> configurations]
LaunchFiles ==
  { LaunchFile("missing", << >>),
    LaunchFile("malformed", << >>),
    LaunchFile("noArray", << >>),
    LaunchFile("json", << >>),
    LaunchFile("json", << ByName >>),
    LaunchFile("json", << ByPath, ByName >>),
    LaunchFile("json", << OtherType, NoProgram, OtherProgram >>),
    LaunchFile("json", << OtherType, Backslashed >>) }
\* what the child writes to its standard error
ErrChunks == { "[  FAILED  ] S.a\r\n" }
\* the code of the 'close' event: a number, or null when a signal ended the
\* child
CloseCodes == {"0", "1", "null"}
\* how the spawn goes: the child runs; it cannot be launched and 'close'
\* follows the 'error' event; it cannot be launched and the 'error' event,
\* which has no listener, is thrown out of the emitter before 'close'
Launches == {"spawned", "failed", "errorThrown"}

\* the texts and name lists the pure functions are applied to
TestNames == {"S.a", "S.b", "S.ab"}
NameSeqs(n) == UNION { [1..k -> TestNames] : k \in 0..n }
StdoutTexts ==
  { "",
    "[  PASSED  ] S.a\n[  FAILED  ] S.b\n",
    "[ PASSED ] S.a\r\n[ FAILED ] S.ab (3 ms)\r\n",
    "[ FAILED ] S.a\n[ PASSED ] S.a",
    "[ PASSED ] S.a\n[ FAILED ] S.a",
    "[       OK ] S.a (0 ms)\n[  PASSED  ] 1 test.",
    "[\tPASSED\t]\tS.b\rx\n[FAILED]S.a\n[ FAILED ]",
    "x [ FAILED ] S.b [ PASSED ] S.a",
    "[ FAILED ] S.a, where x\n[ FAILED ] S.b [ FAILED ] S.ab" }
StderrTexts == { "", "[  FAILED  ] S.b", "[ passed ] S.a\n[ PASSED ]  S.ab" }

VARIABLES
  cmakeSourceDirectory,  \* the setting gtest-plugin.cmakeSourceDirectory
  mtime,                 \* filesystem: file -> mtimeMs, 0 when the file is missing
  clock,                 \* the filesystem's time
  codeModelReady,        \* root -> the build service has a code model for it
  globalState,           \* context.globalState: storage key -> value
  inv,                   \* the ensureBuilt invocation: position and locals
  obs,                   \* the invocation as seen from outside: its root, the
                         \* calls it made on the build service, and whether a
                         \* file changed since it was called
  results,               \* testStore.results: test key -> TestResult
  emitted,               \* the 'changed' events testStore emitted since the
                         \* current request was made
  run,                   \* the run or debug request: position and locals
  runs,                  \* the number of requests made so far (the wall clock
                         \* Date.now() reads)
  applied,               \* the last call of a pure function: name, arguments
                         \* and value
  emitter,               \* testStore as an EventEmitter: the listeners of
                         \* 'changed' in the order they were added, what
                         \* each callback was called with, and the number of
                         \* calls made on the store
  track,                 \* the build service's side: the file times the
                         \* configure or build in progress has read, the
                         \* file times the last successful build of each
                         \* target read, and whether a file was ever
                         \* modified while a configure or build was in
                         \* progress
  overlap                \* a second request or ensureBuilt invocation that
                         \* overlaps the one in inv, obs and run: its own
                         \* inv, obs and run while it stands at an await

\* the state of the build decision, and the state of the runner
buildVars == << cmakeSourceDirectory, mtime, clock, codeModelReady, globalState,
                inv, obs >>
runVars == << results, emitted, run, runs >>

vars == << cmakeSourceDirectory, mtime, clock, codeModelReady, globalState,
           inv, obs, results, emitted, run, runs, applied, emitter, track, overlap >>

(***************************************************************************)
(* String helpers of the language runtime.                                 *)
(***************************************************************************)
LowerChar(c) ==
  CASE c = "C" -> "c"
    [] c = "P" -> "p"
    [] c = "H" -> "h"
    [] c = "X" -> "x"
    [] c = "T" -> "t"
    [] c = "U" -> "u"
    [] c = "S" -> "s"
    [] OTHER -> c

RECURSIVE toLowerCase(_)
toLowerCase(s) ==
  IF Len(s) = 0 THEN ""
  ELSE LowerChar(SubSeq(s, 1, 1)) \o toLowerCase(SubSeq(s, 2, Len(s)))

endsWith(s, suffix) ==
  /\ Len(s) >= Len(suffix)
  /\ SubSeq(s, Len(s) - Len(suffix) + 1, Len(s)) = suffix

startsWith(s, prefix) ==
  /\ Len(s) >= Len(prefix)
  /\ SubSeq(s, 1, Len(prefix)) = prefix

RECURSIVE trimStart(_)
trimStart(s) ==
  IF Len(s) > 0 /\ SubSeq(s, 1, 1) = " "
  THEN trimStart(SubSeq(s, 2, Len(s))) ELSE s

RECURSIVE trimEnd(_)
trimEnd(s) ==
  IF Len(s) > 0 /\ SubSeq(s, Len(s), Len(s)) = " "
  THEN trimEnd(SubSeq(s, 1, Len(s) - 1)) ELSE s

trim(s) == trimEnd(trimStart(s))

\* String.prototype.replace with a global pattern that matches pat literally
RECURSIVE replaceAll(_, _, _)
replaceAll(s, pat, rep) ==
  IF Len(s) = 0 THEN ""
  ELSE IF startsWith(s, pat)
       THEN rep \o replaceAll(SubSeq(s, Len(pat) + 1, Len(s)), pat, rep)
       ELSE SubSeq(s, 1, 1) \o replaceAll(SubSeq(s, 2, Len(s)), pat, rep)

(***************************************************************************)
(* config.ts                                                               *)
(***************************************************************************)
resolvePath(raw, workspaceFolder) ==
  replaceAll(raw, "${workspaceFolder}", workspaceFolder)

Max(S) == CHOOSE m \in S : \A n \in S : n <= m

(***************************************************************************)
(* buildManager.ts                                                         *)
(***************************************************************************)
getCmakeSourceDirectory ==
  LET raw == cmakeSourceDirectory
  IN  IF raw = "" \/ trim(raw) = "" THEN "undefined"
      ELSE resolvePath(trim(raw), WorkspaceFolder)

getEffectiveProjectRoot ==
  IF getCmakeSourceDirectory # "undefined" THEN getCmakeSourceDirectory
  ELSE WorkspaceFolder

getMtime(filePath) == IF filePath \in DOMAIN mtime THEN mtime[filePath] ELSE 0

existsSync(filePath) == filePath \in DOMAIN mtime /\ mtime[filePath] # 0

\* faulty variant: the path is returned without the existence test
findCmakeListsUnchecked == { getEffectiveProjectRoot \o "/CMakeLists.txt" }

findCmakeLists ==
  LET main == getEffectiveProjectRoot \o "/CMakeLists.txt"
  IN  IF existsSync(main) THEN {main} ELSE {}

StorageGet(store, key, default) ==
  IF key \in DOMAIN store THEN store[key] ELSE default

StorageUpdate(store, key, value) ==
  [k \in DOMAIN store \cup {key} |-> IF k = key THEN value ELSE store[k]]

\* faulty variant: the key does not depend on the root
CmakeKeyUnscoped(root) == STORAGE_KEY_CMAKE_MTIME

CmakeKey(root) == STORAGE_KEY_CMAKE_MTIME \o "_" \o root
SourceKey(root) == STORAGE_KEY_SOURCE_MTIMES \o "_" \o root

EmptyMap == [p \in {} |-> 0]

\* faulty variant: >= in place of >, an unchanged file counts as changed
cmakeListsChangedOrEqual ==
  LET lists == findCmakeLists
      last == StorageGet(globalState, CmakeKey(getEffectiveProjectRoot), 0)
  IN  IF lists = {} THEN FALSE
      ELSE Max({ getMtime(f) : f \in lists }) >= last

cmakeListsChanged ==
  LET lists == findCmakeLists
      last == StorageGet(globalState, CmakeKey(getEffectiveProjectRoot), 0)
  IN  IF lists = {} THEN FALSE
      ELSE Max({ getMtime(f) : f \in lists }) > last

\* the storage after saveCmakeMtimes
saveCmakeMtimes(store) ==
  LET lists == findCmakeLists
  IN  IF lists = {} THEN store
      ELSE StorageUpdate(store, CmakeKey(getEffectiveProjectRoot),
                         Max({ getMtime(f) : f \in lists }))

IsTrackedSource(s) ==
  LET lower == toLowerCase(s)
  IN  \/ endsWith(lower, ".cpp")
      \/ endsWith(lower, ".hpp")
      \/ endsWith(lower, ".cxx")
      \/ endsWith(lower, ".hxx")

\* the Project object of the build service for a root; its codeModel is
\* << >> while the build service has none (undefined in the source)
Project(root, ready) ==
  [codeModel |-> IF ready THEN CodeModelProjects(root) ELSE << >>]

\* getProject(workspaceFolder), when the build service has a project
getProject == Project(getEffectiveProjectRoot, codeModelReady[getEffectiveProjectRoot])

\* faulty variant: the name test is missing, every executable's paths count
getSourcePathsForAllExecutables(project, executableNames) ==
  IF project.codeModel = << >> THEN {}
  ELSE LET projects == project.codeModel
       IN  { s \in SourceFiles :
               \E i \in DOMAIN projects :
                 \E j \in DOMAIN projects[i].targets :
                   LET target == projects[i].targets[j]
                   IN  /\ target.type = "EXECUTABLE"
                       /\ \E g \in DOMAIN target.fileGroups :
                            s \in Range(target.fileGroups[g])
                       /\ IsTrackedSource(s) }

getSourcePathsForExecutables(project, executableNames) ==
  IF project.codeModel = << >> THEN {}
  ELSE LET projects == project.codeModel
       IN  { s \in SourceFiles :
               \E i \in DOMAIN projects :
                 \E j \in DOMAIN projects[i].targets :
                   LET target == projects[i].targets[j]
                   IN  /\ target.type = "EXECUTABLE"
                       /\ target.name \in Range(executableNames)
                       /\ \E g \in DOMAIN target.fileGroups :
                            s \in Range(target.fileGroups[g])
                       /\ IsTrackedSource(s) }

\* faulty variant: every path must have changed, not just one
sourcesChangedAll(store, project, executableNames) ==
  LET paths == getSourcePathsForExecutables(project, executableNames)
      lastMap == StorageGet(store, SourceKey(getEffectiveProjectRoot), EmptyMap)
  IN  /\ paths # {}
      /\ \A p \in paths : getMtime(p) > StorageGet(lastMap, p, 0)

\* faulty variant: >= in place of >, an unchanged path counts as changed
sourcesChangedOrEqual(store, project, executableNames) ==
  LET paths == getSourcePathsForExecutables(project, executableNames)
      lastMap == StorageGet(store, SourceKey(getEffectiveProjectRoot), EmptyMap)
  IN  \E p \in paths : getMtime(p) >= StorageGet(lastMap, p, 0)

sourcesChanged(store, project, executableNames) ==
  LET paths == getSourcePathsForExecutables(project, executableNames)
      lastMap == StorageGet(store, SourceKey(getEffectiveProjectRoot), EmptyMap)
  IN  \E p \in paths : getMtime(p) > StorageGet(lastMap, p, 0)

\* faulty variant: the mtimes of every executable's paths are saved, not
\* only those of the named ones
saveSourceMtimesOfAll(store, project, executableNames) ==
  LET paths == getSourcePathsForExecutables(project, << "T", "U" >>)
      key == SourceKey(getEffectiveProjectRoot)
      lastMap == StorageGet(store, key, EmptyMap)
      newMap == [p \in DOMAIN lastMap \cup paths |->
                   IF p \in paths THEN getMtime(p) ELSE lastMap[p]]
  IN  StorageUpdate(store, key, newMap)

\* the storage after saveSourceMtimes
saveSourceMtimes(store, project, executableNames) ==
  LET paths == getSourcePathsForExecutables(project, executableNames)
      key == SourceKey(getEffectiveProjectRoot)
      lastMap == StorageGet(store, key, EmptyMap)
      newMap == [p \in DOMAIN lastMap \cup paths |->
                   IF p \in paths THEN getMtime(p) ELSE lastMap[p]]
  IN  StorageUpdate(store, key, newMap)

(***************************************************************************)
(* testStore.ts: the result store.  The operators give the results map     *)
(* after each call; the 'changed' event a call emits is appended to        *)
(* emitted by the action that makes the call.                              *)
(***************************************************************************)
testKey(executable, fullName) == executable \o "::" \o fullName

\* TestResult: lastRunTime is 0 while it is undefined
TestResult(status, output, lastRunTime) ==
  [status |-> status, output |-> output, lastRunTime |-> lastRunTime]

getStatus(res, executable, fullName) ==
  LET key == testKey(executable, fullName)
  IN  IF key \in DOMAIN res THEN res[key].status ELSE "none"

getOutput(res, executable, fullName) ==
  LET key == testKey(executable, fullName)
  IN  IF key \in DOMAIN res THEN res[key].output ELSE ""

MapSet(res, key, value) ==
  [k \in DOMAIN res \cup {key} |-> IF k = key THEN value ELSE res[k]]

setStatus(res, executable, fullName, status) ==
  LET key == testKey(executable, fullName)
  IN  MapSet(res, key,
             TestResult(status,
                        IF key \in DOMAIN res THEN res[key].output ELSE "",
                        IF key \in DOMAIN res THEN res[key].lastRunTime ELSE 0))

\* faulty variant: the new output is appended to the stored one
setOutputAppending(res, executable, fullName, output, now) ==
  LET key == testKey(executable, fullName)
  IN  MapSet(res, key,
             TestResult(IF key \in DOMAIN res THEN res[key].status ELSE "none",
                        (IF key \in DOMAIN res THEN res[key].output ELSE "") \o output,
                        now))

setOutput(res, executable, fullName, output, now) ==
  LET key == testKey(executable, fullName)
  IN  MapSet(res, key,
             TestResult(IF key \in DOMAIN res THEN res[key].status ELSE "none",
                        output, now))

\* the map after the loop of setStatusBulk over entries[i..]
RECURSIVE setStatusBulkFrom(_, _, _, _)
setStatusBulkFrom(res, executable, entries, i) ==
  IF i > Len(entries) THEN res
  ELSE setStatusBulkFrom(setStatus(res, executable, entries[i].fullName,
                                   entries[i].status),
                         executable, entries, i + 1)

setStatusBulk(res, executable, entries) ==
  setStatusBulkFrom(res, executable, entries, 1)

(***************************************************************************)
(* testRunner.ts                                                           *)
(***************************************************************************)
\* faulty variant: a path is made up from the target's name
getExecutablePathByName(project, targetName) ==
  IF project.codeModel = << >> THEN "undefined" ELSE "/b/" \o targetName

\* getExecutablePath: "undefined" when the code model has no artifact for
\* the target
getExecutablePath(project, targetName) ==
  IF project.codeModel = << >> THEN "undefined"
  ELSE LET projects == project.codeModel
           all == UNION { { << i, j >> : j \in DOMAIN projects[i].targets } :
                          i \in DOMAIN projects }
           found == { f \in all :
                        /\ projects[f[1]].targets[f[2]].name = targetName
                        /\ Len(projects[f[1]].targets[f[2]].artifacts) > 0 }
       IN  IF found = {} THEN "undefined"
           ELSE LET first == CHOOSE f \in found :
                               \A g \in found :
                                 f[1] < g[1] \/ (f[1] = g[1] /\ f[2] <= g[2])
                IN  projects[first[1]].targets[first[2]].artifacts[1]

\* faulty variant: a separator follows every name
RECURSIVE joinTrailing(_, _)
joinTrailing(strings, sep) ==
  IF Len(strings) = 0 THEN ""
  ELSE strings[1] \o sep \o joinTrailing(Tail(strings), sep)

\* Array.prototype.join
RECURSIVE join(_, _)
join(strings, sep) ==
  IF Len(strings) = 0 THEN ""
  ELSE IF Len(strings) = 1 THEN strings[1]
  ELSE strings[1] \o sep \o join(Tail(strings), sep)

buildFilter(fullNames) ==
  IF Len(fullNames) = 0 THEN "*" ELSE join(fullNames, ":")

\* faulty variant: the default filter is appended whatever it starts with
finalFilterAlways(baseFilter, fullNames) ==
  LET filter == buildFilter(fullNames)
  IN  IF baseFilter # "" THEN filter \o ":" \o baseFilter ELSE filter

\* the filter of a run (lines 168-170)
finalFilter(baseFilter, fullNames) ==
  LET filter == buildFilter(fullNames)
  IN  IF baseFilter # ""
      THEN filter \o (IF startsWith(baseFilter, "-") THEN "" ELSE ":" \o baseFilter)
      ELSE filter

CharAt(s, i) == SubSeq(s, i, i)

\* path.basename and path.dirname of a POSIX path without a trailing slash
LastSlash(p) == Max({0} \cup { i \in 1..Len(p) : CharAt(p, i) = "/" })
basename(p) == SubSeq(p, LastSlash(p) + 1, Len(p))
dirname(p) ==
  IF LastSlash(p) = 0 THEN "."
  ELSE IF LastSlash(p) = 1 THEN "/"
  ELSE SubSeq(p, 1, LastSlash(p) - 1)

\* config.ts getMiDebuggerPath and getEnvFile, raw being the setting's value
getMiDebuggerPath(raw) ==
  IF raw # "" /\ trim(raw) # "" THEN trim(raw) ELSE "undefined"

getEnvFile(raw, workspaceFolder) ==
  IF raw = "" \/ trim(raw) = "" THEN "undefined"
  ELSE resolvePath(trim(raw), workspaceFolder)

resolveLaunchPath(raw, workspaceFolder) ==
  replaceAll(raw, "${workspaceFolder}", workspaceFolder)

\* a value that a condition takes as true
Truthy(v) == v \notin {"undefined", ""}

\* the loop of getMatchingLaunchConfig from configs[i] on
RECURSIVE matchFrom(_, _, _, _)
matchFrom(configs, i, exePath, workspaceFolder) ==
  IF i > Len(configs) THEN << >>
  ELSE LET c == configs[i]
           progResolved == replaceAll(resolveLaunchPath(c.program, workspaceFolder),
                                      "\\", "/")
       IN  IF c.type # "cppdbg" \/ ~Truthy(c.program)
           THEN matchFrom(configs, i + 1, exePath, workspaceFolder)
           ELSE IF \/ progResolved = replaceAll(exePath, "\\", "/")
                   \/ basename(progResolved) = basename(exePath)
                THEN << [miDebuggerPath |-> c.miDebuggerPath,
                         envFile |-> c.envFile] >>
                ELSE matchFrom(configs, i + 1, exePath, workspaceFolder)

\* getMatchingLaunchConfig: << >> is undefined
getMatchingLaunchConfig(launchFile, workspaceFolder, exePath) ==
  IF launchFile.kind # "json" THEN << >>
  ELSE matchFrom(launchFile.configurations, 1, exePath, workspaceFolder)

\* lines 225-238: the configuration before the debugger path and the env
\* file are looked for; its environment, the setting gtest-plugin.env as a
\* list, is left out
debugConfiguration(executable, exePath, fullNames, buildDirectory) ==
  [type |-> "cppdbg",
   request |-> "launch",
   name |-> "GTest: " \o executable,
   program |-> exePath,
   args |-> << "--gtest_filter=" \o buildFilter(fullNames) >>,
   cwd |-> IF Truthy(buildDirectory) THEN buildDirectory ELSE dirname(exePath)]

\* config.<field> = value
WithField(config, field, value) ==
  [k \in DOMAIN config \cup {field} |-> IF k = field THEN value ELSE config[k]]

\* lines 242-243
withPluginSettings(config, pluginGdb, pluginEnvFile) ==
  LET c1 == IF Truthy(pluginGdb)
            THEN WithField(config, "miDebuggerPath", pluginGdb) ELSE config
  IN  IF Truthy(pluginEnvFile) THEN WithField(c1, "envFile", pluginEnvFile) ELSE c1

\* faulty variant: the matching launch configuration's fields replace the
\* fields the settings gave
withLaunchMatchFirst(config, launchMatch, workspaceFolder) ==
  IF launchMatch = << >> THEN config
  ELSE LET m  == launchMatch[1]
           c1 == IF Truthy(m.miDebuggerPath)
                 THEN WithField(config, "miDebuggerPath", m.miDebuggerPath)
                 ELSE config
       IN  IF Truthy(m.envFile)
           THEN WithField(c1, "envFile", resolveLaunchPath(m.envFile, workspaceFolder))
           ELSE c1

\* faulty variant: the working directory follows the matching launch
\* configuration's env file
withLaunchMatchCwd(config, launchMatch, workspaceFolder) ==
  IF launchMatch = << >> THEN config
  ELSE LET m == launchMatch[1]
       IN  IF Truthy(m.envFile)
           THEN WithField(config, "cwd",
                          dirname(resolveLaunchPath(m.envFile, workspaceFolder)))
           ELSE config

\* lines 245-250
withLaunchMatch(config, launchMatch, workspaceFolder) ==
  IF launchMatch = << >> THEN config
  ELSE LET m  == launchMatch[1]
           c1 == IF "miDebuggerPath" \notin DOMAIN config /\ Truthy(m.miDebuggerPath)
                 THEN WithField(config, "miDebuggerPath", m.miDebuggerPath)
                 ELSE config
       IN  IF "envFile" \notin DOMAIN c1 /\ Truthy(m.envFile)
           THEN WithField(c1, "envFile", resolveLaunchPath(m.envFile, workspaceFolder))
           ELSE c1

\* lines 225-250 of debugTestsWithNames: the configuration handed to
\* startDebugging
composeDebugConfiguration(executable, exePath, fullNames, buildDirectory, miDebuggerPath, envFile, launchFile) ==
  withLaunchMatch(
    withPluginSettings(
      debugConfiguration(executable, exePath, fullNames, buildDirectory),
      getMiDebuggerPath(miDebuggerPath),
      getEnvFile(envFile, WorkspaceFolder)),
    getMatchingLaunchConfig(launchFile, WorkspaceFolder, exePath),
    WorkspaceFolder)

\* \s of the regular expressions
IsSpace(c) == c \in {" ", "\t", "\r", "\n"}

\* the first index from i on that holds no white space, Len(s) + 1 if none
RECURSIVE SkipSpaces(_, _)
SkipSpaces(s, i) ==
  IF i <= Len(s) /\ IsSpace(CharAt(s, i)) THEN SkipSpaces(s, i + 1) ELSE i

\* the first index from i on that holds white space, Len(s) + 1 if none
RECURSIVE SkipNonSpaces(_, _)
SkipNonSpaces(s, i) ==
  IF i <= Len(s) /\ ~IsSpace(CharAt(s, i)) THEN SkipNonSpaces(s, i + 1) ELSE i

\* output.split(/\r?\n/): the pieces of s between the line feeds, each
\* without the carriage return that precedes its line feed
splitLines(s) ==
  LET feeds == { i \in 1..Len(s) : CharAt(s, i) = "\n" }
      \* the index of the k-th line feed, 0 for k = 0, Len(s) + 1 past the last
      feed(k) == IF k = 0 THEN 0
                 ELSE IF k > Cardinality(feeds) THEN Len(s) + 1
                 ELSE CHOOSE i \in feeds :
                        Cardinality({ f \in feeds : f <= i }) = k
      last(k) == IF /\ k <= Cardinality(feeds)
                    /\ feed(k) - 1 > feed(k - 1)
                    /\ CharAt(s, feed(k) - 1) = "\r"
                 THEN feed(k) - 2 ELSE feed(k) - 1
  IN  [k \in 1..(Cardinality(feeds) + 1) |-> SubSeq(s, feed(k - 1) + 1, last(k))]

\* the group (\S+) of /\[\s*WORD\s*\]\s+(\S+)/ matched at index i of line,
\* "" when the expression does not match there
MatchAt(line, i, word) ==
  IF CharAt(line, i) # "[" THEN ""
  ELSE LET j == SkipSpaces(line, i + 1)
           k == SkipSpaces(line, j + Len(word))
           n == SkipSpaces(line, k + 1)
       IN  IF /\ j + Len(word) - 1 <= Len(line)
              /\ SubSeq(line, j, j + Len(word) - 1) = word
              /\ k <= Len(line)
              /\ CharAt(line, k) = "]"
              /\ n > k + 1
              /\ n <= Len(line)
           THEN SubSeq(line, n, SkipNonSpaces(line, n) - 1)
           ELSE ""

\* line.match(...)[1]: the group of the leftmost match, "" when none
lineMatch(line, word) ==
  LET at == { i \in 1..Len(line) : MatchAt(line, i, word) # "" }
  IN  IF at = {} THEN ""
      ELSE MatchAt(line, CHOOSE i \in at : \A k \in at : i <= k, word)

\* the set failed (word FAILED) or passed (word PASSED) after the loop
Marked(lines, word) ==
  { lineMatch(lines[i], word) : i \in DOMAIN lines } \ {""}

\* faulty variant: passed is tested before failed
parseGTestOutputPassedFirst(stdout, stderr, executable, fullNames) ==
  LET output == stdout \o "\n" \o stderr
      lines == splitLines(output)
      failed == Marked(lines, "FAILED")
      passed == Marked(lines, "PASSED")
  IN  [i \in DOMAIN fullNames |->
         [fullName |-> fullNames[i],
          status |-> IF fullNames[i] \in passed THEN "passed"
                     ELSE IF fullNames[i] \in failed THEN "failed"
                     ELSE "none"]]

\* faulty variant: a name without a marker line counts as passed
parseGTestOutputDefaultPassed(stdout, stderr, executable, fullNames) ==
  LET output == stdout \o "\n" \o stderr
      lines == splitLines(output)
      failed == Marked(lines, "FAILED")
  IN  [i \in DOMAIN fullNames |->
         [fullName |-> fullNames[i],
          status |-> IF fullNames[i] \in failed THEN "failed" ELSE "passed"]]

\* faulty variant: a name without a marker line counts as ignored
parseGTestOutputElseIgnored(stdout, stderr, executable, fullNames) ==
  LET output == stdout \o "\n" \o stderr
      lines == splitLines(output)
      failed == Marked(lines, "FAILED")
      passed == Marked(lines, "PASSED")
  IN  [i \in DOMAIN fullNames |->
         [fullName |-> fullNames[i],
          status |-> IF fullNames[i] \in failed THEN "failed"
                     ELSE IF fullNames[i] \in passed THEN "passed"
                     ELSE "ignored"]]

parseGTestOutput(stdout, stderr, executable, fullNames) ==
  LET output == stdout \o "\n" \o stderr
      lines == splitLines(output)
      failed == Marked(lines, "FAILED")
      passed == Marked(lines, "PASSED")
  IN  [i \in DOMAIN fullNames |->
         [fullName |-> fullNames[i],
          status |-> IF fullNames[i] \in failed THEN "failed"
                     ELSE IF fullNames[i] \in passed THEN "passed"
                     ELSE "none"]]

\* faulty variant: only the first name is written
setStatusFirst(res, executable, fullNames, status, i) ==
  IF Len(fullNames) = 0 THEN res
  ELSE setStatus(res, executable, fullNames[1], status)

\* the results map after the loop of setStatus(executable, fn, status) over
\* fullNames[i..]
RECURSIVE setStatusEach(_, _, _, _, _)
setStatusEach(res, executable, fullNames, status, i) ==
  IF i > Len(fullNames) THEN res
  ELSE setStatusEach(setStatus(res, executable, fullNames[i], status),
                     executable, fullNames, status, i + 1)

\* the results map after the loop of setOutput(executable, fn, combined)
\* over fullNames[i..]
RECURSIVE setOutputEach(_, _, _, _, _, _)
setOutputEach(res, executable, fullNames, combined, now, i) ==
  IF i > Len(fullNames) THEN res
  ELSE setOutputEach(setOutput(res, executable, fullNames[i], combined, now),
                     executable, fullNames, combined, now, i + 1)

\* the 'changed' events of one setStatus or setOutput per name
ChangedEach(executable, fullNames) ==
  [i \in DOMAIN fullNames |-> << executable, fullNames[i] >>]

(***************************************************************************)
(* testScanner.ts                                                          *)
(***************************************************************************)
TEST_REGEX == "TEST"
TEST_F_REGEX == "TEST_F"
TEST_P_REGEX == "TEST_P"

\* \w of the regular expressions
IsWordChar(c) ==
  c \in { "a", "b", "c", "d", "e", "f", "g", "h", "i", "j", "k", "l", "m",
          "n", "o", "p", "q", "r", "s", "t", "u", "v", "w", "x", "y", "z",
          "A", "B", "C", "D", "E", "F", "G", "H", "I", "J", "K", "L", "M",
          "N", "O", "P", "Q", "R", "S", "T", "U", "V", "W", "X", "Y", "Z",
          "0", "1", "2", "3", "4", "5", "6", "7", "8", "9", "_" }

\* the first index from i on that holds no word character, Len(s) + 1 if
\* none
RECURSIVE SkipWord(_, _)
SkipWord(s, i) ==
  IF i <= Len(s) /\ IsWordChar(CharAt(s, i)) THEN SkipWord(s, i + 1) ELSE i

\* s holds the character c at index i
HasAt(s, i, c) == i <= Len(s) /\ CharAt(s, i) = c

\* regex.exec(line) with lastIndex 0 for /^\s*MACRO\s*\(\s*(\w+)\s*,\s*(\w+)\s*\)/gm
\* on a line without a line terminator: << >> for null, else the two groups
regexExec(line, regex) ==
  LET macroAt == SkipSpaces(line, 1)
      parenAt == SkipSpaces(line, macroAt + Len(regex))
      suiteAt == SkipSpaces(line, parenAt + 1)
      suiteEnd == SkipWord(line, suiteAt)
      commaAt == SkipSpaces(line, suiteEnd)
      nameAt == SkipSpaces(line, commaAt + 1)
      nameEnd == SkipWord(line, nameAt)
      closeAt == SkipSpaces(line, nameEnd)
  IN  IF /\ macroAt + Len(regex) - 1 <= Len(line)
         /\ SubSeq(line, macroAt, macroAt + Len(regex) - 1) = regex
         /\ HasAt(line, parenAt, "(")
         /\ suiteEnd > suiteAt
         /\ HasAt(line, commaAt, ",")
         /\ nameEnd > nameAt
         /\ HasAt(line, closeAt, ")")
      THEN << SubSeq(line, suiteAt, suiteEnd - 1), SubSeq(line, nameAt, nameEnd - 1) >>
      ELSE << >>

\* faulty variant: the index of the line is its number
findMatchesFromZero(text, regex) ==
  LET lines == splitLines(text)
      match(m, line) ==
        IF m # << >>
        THEN << [suiteName |-> m[1], testName |-> m[2], line |-> line] >>
        ELSE << >>
      RECURSIVE from(_)
      from(i) ==
        IF i > Len(lines) THEN << >>
        ELSE match(regexExec(lines[i], regex), i - 1) \o from(i + 1)
  IN  from(1)

\* findMatches: lines[i] of the code is lines[i + 1] here
findMatches(text, regex) ==
  LET lines == splitLines(text)
      match(m, line) ==
        IF m # << >>
        THEN << [suiteName |-> m[1], testName |-> m[2], line |-> line] >>
        ELSE << >>
      RECURSIVE from(_)
      from(i) ==
        IF i > Len(lines) THEN << >>
        ELSE match(regexExec(lines[i], regex), i) \o from(i + 1)
  IN  from(1)

\* the closure run of scanFile and of scanDocument: the tests it pushes
runRegex(text, regex, kind) ==
  LET push(matches) ==
        [i \in DOMAIN matches |->
           [suiteName |-> matches[i].suiteName,
            testName |-> matches[i].testName,
            line |-> matches[i].line,
            kind |-> kind,
            fullName |-> matches[i].suiteName \o "." \o matches[i].testName]]
  IN  push(findMatches(text, regex))

\* scanFile: readable is whether readFileSync returns content
scanFile(readable, content) ==
  IF ~readable THEN << >>
  ELSE runRegex(content, TEST_REGEX, "TEST")
       \o runRegex(content, TEST_F_REGEX, "TEST_F")
       \o runRegex(content, TEST_P_REGEX, "TEST_P")

scanDocument(text) ==
  runRegex(text, TEST_REGEX, "TEST")
  \o runRegex(text, TEST_F_REGEX, "TEST_F")
  \o runRegex(text, TEST_P_REGEX, "TEST_P")

(***************************************************************************)
(* cmakeIntegration.ts getExecutableSources / getExecutableForFile, the    *)
(* tree of testTreeProvider.ts and the code lenses of codeLensProvider.ts. *)
(* A Map is the sequence of its entries in insertion order.                *)
(***************************************************************************)
\* map.set(key, value)
MapSetOrdered(map, key, value) ==
  IF \E i \in DOMAIN map : map[i][1] = key
  THEN [i \in DOMAIN map |-> IF map[i][1] = key THEN << key, value >> ELSE map[i]]
  ELSE Append(map, << key, value >>)

\* the concatenation of a sequence of sequences
RECURSIVE Flatten(_)
Flatten(seqs) ==
  IF Len(seqs) = 0 THEN << >> ELSE seqs[1] \o Flatten(SubSeq(seqs, 2, Len(seqs)))

\* faulty variant: targets of every type count
getExecutableSourcesOfAllTypes(project) ==
  LET targets == Flatten([i \in DOMAIN project.codeModel |->
                            project.codeModel[i].targets])
      RECURSIVE from(_, _)
      from(map, i) ==
        IF i > Len(targets) THEN map
        ELSE LET sources == Flatten(targets[i].fileGroups)
             IN  from(IF Len(sources) > 0
                      THEN MapSetOrdered(map, targets[i].name, sources) ELSE map,
                      i + 1)
  IN  from(<< >>, 1)

getExecutableSources(project) ==
  LET targets == Flatten([i \in DOMAIN project.codeModel |->
                            project.codeModel[i].targets])
      RECURSIVE from(_, _)
      from(map, i) ==
        IF i > Len(targets) THEN map
        ELSE LET sources == Flatten(targets[i].fileGroups)
             IN  from(IF targets[i].type = "EXECUTABLE" /\ Len(sources) > 0
                      THEN MapSetOrdered(map, targets[i].name, sources) ELSE map,
                      i + 1)
  IN  from(<< >>, 1)

\* s.replace(/\\/g, '/')
normalizeSeparators(s) == replaceAll(s, "\\", "/")

\* getExecutableForFile: "undefined" when no executable lists the file
getExecutableForFile(project, sourceFilePath) ==
  LET owners(map, normalized) ==
        { i \in DOMAIN map :
            \E k \in DOMAIN map[i][2] :
              normalizeSeparators(map[i][2][k]) = normalized }
      first(map, found) ==
        IF found = {} THEN "undefined"
        ELSE map[CHOOSE i \in found : \A j \in found : i <= j][1]
      get(map, normalized) == first(map, owners(map, normalized))
  IN  get(getExecutableSources(project), normalizeSeparators(sourceFilePath))

\* fileToExec.get(normPath) of buildTree: the last executable that lists the
\* path, "undefined" when none does
fileToExec(project, normPath) ==
  LET owners(map) ==
        { i \in DOMAIN map :
            \E k \in DOMAIN map[i][2] :
              normalizeSeparators(map[i][2][k]) = normPath }
      last(map, found) ==
        IF found = {} THEN "undefined"
        ELSE map[CHOOSE i \in found : \A j \in found : j <= i][1]
      get(map) == last(map, owners(map))
  IN  get(getExecutableSources(project))

\* the elements of a sequence, each at its first place only
FirstOccurrences(seq) ==
  LET keep == { i \in DOMAIN seq : \A j \in 1..(i - 1) : seq[j] # seq[i] }
      RECURSIVE from(_)
      from(i) == IF i > Len(seq) THEN << >>
                 ELSE (IF i \in keep THEN << seq[i] >> ELSE << >>) \o from(i + 1)
  IN  from(1)

\* buildTree: scannedFiles is what scanDirectory resolved to
buildTree(project, scannedFiles) ==
  LET \* the tests of a file that has an executable, with file and executable
      ownedOf(file, exec) ==
        IF exec = "undefined" THEN << >>
        ELSE [t \in DOMAIN file.tests |->
                [test |-> file.tests[t],
                 filePath |-> file.filePath,
                 executable |-> exec]]
      testNodes(exec, suiteName, tests) ==
        [i \in DOMAIN tests |->
           [kind |-> "test",
            label |-> tests[i].test.testName,
            id |-> exec \o "::" \o tests[i].test.fullName,
            executable |-> exec,
            suiteName |-> suiteName,
            fullName |-> tests[i].test.fullName,
            filePath |-> tests[i].filePath,
            line |-> tests[i].test.line,
            children |-> << >>]]
      suiteNodes(exec, ofExec, suites) ==
        [i \in DOMAIN suites |->
           [kind |-> "suite",
            label |-> suites[i],
            id |-> exec \o "::" \o suites[i],
            executable |-> exec,
            suiteName |-> suites[i],
            children |->
              testNodes(exec, suites[i],
                        SelectSeq(ofExec, LAMBDA o : o.test.suiteName = suites[i]))]]
      execNode(exec, ofExec) ==
        [kind |-> "executable", label |-> exec, id |-> exec,
         executable |-> exec,
         children |->
           suiteNodes(exec, ofExec,
                      FirstOccurrences([i \in DOMAIN ofExec |->
                                          ofExec[i].test.suiteName]))]
      roots(owned, execs) ==
        [i \in DOMAIN execs |->
           execNode(execs[i], SelectSeq(owned, LAMBDA o : o.executable = execs[i]))]
      tree(owned) ==
        roots(owned, FirstOccurrences([i \in DOMAIN owned |-> owned[i].executable]))
  IN  tree(Flatten([f \in DOMAIN scannedFiles |->
                      ownedOf(scannedFiles[f],
                              fileToExec(project,
                                         normalizeSeparators(scannedFiles[f].filePath)))]))

\* setWorkspace: the roots of the tree, none without a project
setWorkspace(hasProject, project, scannedFiles) ==
  IF hasProject THEN buildTree(project, scannedFiles) ELSE << >>

\* provideCodeLenses for a document of a workspace folder
provideCodeLenses(hasProject, project, filePath, text) ==
  IF ~hasProject THEN << >>
  ELSE LET lenses(executable, tests) ==
             IF executable = "undefined" THEN << >>
             ELSE Flatten([i \in DOMAIN tests |->
                    << [line |-> tests[i].line - 1, title |-> "$(play) Run",
                        command |-> "gtest-plugin.runSingleTest",
                        arguments |-> << executable, tests[i].fullName >>],
                       [line |-> tests[i].line - 1, title |-> "$(debug-start) Debug",
                        command |-> "gtest-plugin.debugSingleTest",
                        arguments |-> << executable, tests[i].fullName >>] >>])
       IN  lenses(getExecutableForFile(project, filePath), scanDocument(text))

(***************************************************************************)
(* Initial state: a fresh storage, every file on disk or missing, the      *)
(* build service with or without a code model for each root.              *)
(***************************************************************************)
IdleInv == [pc |-> "idle", executableNames |-> << >>, needConfigure |-> FALSE,
            result |-> "none"]

NoObs == [root |-> "", trace |-> << >>, modified |-> FALSE]

IdleRun == [pc |-> "idle", mode |-> "", executable |-> "", fullNames |-> << >>,
            exePath |-> "", baseFilter |-> "", args |-> << >>,
            launch |-> "", stdout |-> "", stderr |-> "", data |-> 0,
            exitCode |-> 0, result |-> "none", trace |-> << >>,
            started |-> 0]

NoneApplied == [fn |-> "", args |-> << >>, value |-> << >>]

\* a build service that has read nothing and built nothing
NoTrack == [consumed |-> [f \in Files |-> 0], built |-> << >>, raced |-> FALSE]

\* no second request or invocation
NoOverlap == [inv |-> IdleInv, obs |-> NoObs, run |-> IdleRun]

\* a store nobody has subscribed to
NoListeners == [handlers |-> << >>, received |-> << >>, disposed |-> {}, calls |-> 0]

Init ==
  /\ cmakeSourceDirectory = ""
  /\ mtime = [f \in Files |-> 1]
  /\ clock = 1
  /\ codeModelReady \in { [r \in Roots |-> b] : b \in BOOLEAN }
  /\ globalState = << >>
  /\ inv = IdleInv
  /\ obs = NoObs
  /\ results = << >>
  /\ emitted = << >>
  /\ run = IdleRun
  /\ runs = 0
  /\ applied = NoneApplied
  /\ emitter = NoListeners
  /\ track = NoTrack
  /\ overlap = NoOverlap

(***************************************************************************)
(* The environment's steps.                                                *)
(***************************************************************************)
\* a file is written (or created)
Touch(f) ==
  /\ clock < MaxTime
  /\ clock' = clock + 1
  /\ mtime' = [mtime EXCEPT ![f] = clock + 1]
  /\ obs' = [obs EXCEPT !.modified = TRUE]
  /\ UNCHANGED << cmakeSourceDirectory, codeModelReady, globalState, inv >>

\* a file is deleted
Remove(f) ==
  /\ mtime[f] # 0
  /\ clock < MaxTime
  /\ clock' = clock + 1
  /\ mtime' = [mtime EXCEPT ![f] = 0]
  /\ obs' = [obs EXCEPT !.modified = TRUE]
  /\ UNCHANGED << cmakeSourceDirectory, codeModelReady, globalState, inv >>

\* the user edits the setting while no invocation is in flight
SetCmakeSourceDirectory(dir) ==
  /\ inv.pc \in {"idle", "done"}
  /\ dir # cmakeSourceDirectory
  /\ cmakeSourceDirectory' = dir
  /\ UNCHANGED << mtime, clock, codeModelReady, globalState, inv, obs >>

(***************************************************************************)
(* ensureBuilt, one action per stretch between two awaits.  Nothing is     *)
(* read before getProject resolves, so the call and that first await are   *)
(* one step; project is whether the build service has a project.           *)
(***************************************************************************)
\* sourcesChanged and what follows it up to the next await or the return,
\* in storage store; seen is the obs record so far
DecideBuild(store, project, executableNames, needConfigure, seen) ==
  LET needBuild == sourcesChanged(store, project, executableNames)
  IN  /\ globalState' = store
      /\ IF needBuild \/ needConfigure
         THEN /\ inv' = [pc |-> "build", executableNames |-> executableNames,
                         needConfigure |-> needConfigure, result |-> "none"]
              /\ obs' = [seen EXCEPT !.trace = Append(@, "build")]
         ELSE /\ inv' = [pc |-> "done", executableNames |-> executableNames,
                         needConfigure |-> needConfigure, result |-> "true"]
              /\ obs' = seen

\* ensureBuilt is called and runs up to its first await on the build
\* service, or to its return
Call(executableNames, project) ==
  /\ inv.pc \in {"idle", "done"}
  /\ LET seen0 == [NoObs EXCEPT !.root = getEffectiveProjectRoot]
     IN  IF ~project
         THEN /\ inv' = [pc |-> "done", executableNames |-> executableNames,
                         needConfigure |-> FALSE, result |-> "false"]
              /\ obs' = seen0
              /\ UNCHANGED globalState
         ELSE LET needConfigure == cmakeListsChanged
              IN  IF needConfigure
                  THEN /\ inv' = [pc |-> "configure", executableNames |-> executableNames,
                                  needConfigure |-> TRUE, result |-> "none"]
                       /\ obs' = [seen0 EXCEPT !.trace = Append(@, "configure")]
                       /\ UNCHANGED globalState
                  ELSE DecideBuild(globalState, getProject, executableNames, FALSE, seen0)
  /\ UNCHANGED << cmakeSourceDirectory, mtime, clock, codeModelReady >>

\* faulty variant: the mtime is saved whether or not configure succeeded
ConfigureReturnsSavesAlways(ok) ==
  /\ inv.pc = "configure"
  /\ IF ok
     THEN /\ codeModelReady' = [codeModelReady EXCEPT ![getEffectiveProjectRoot] = TRUE]
          /\ DecideBuild(saveCmakeMtimes(globalState),
                         Project(getEffectiveProjectRoot, TRUE),
                         inv.executableNames, inv.needConfigure,
                         [obs EXCEPT !.trace = Append(@, "configure.ok")])
     ELSE /\ inv' = [inv EXCEPT !.pc = "done", !.result = "threw"]
          /\ obs' = [obs EXCEPT !.trace = Append(@, "configure.rejected")]
          /\ globalState' = saveCmakeMtimes(globalState)
          /\ UNCHANGED codeModelReady
  /\ UNCHANGED << cmakeSourceDirectory, mtime, clock >>

\* project.configure() settles and ensureBuilt resumes: the rejection
\* propagates, or the build service has a code model from now on and
\* saveCmakeMtimes, sourcesChanged and the build call follow
ConfigureReturns(ok) ==
  /\ inv.pc = "configure"
  /\ IF ok
     THEN /\ codeModelReady' = [codeModelReady EXCEPT ![getEffectiveProjectRoot] = TRUE]
          /\ DecideBuild(saveCmakeMtimes(globalState),
                         Project(getEffectiveProjectRoot, TRUE),
                         inv.executableNames, inv.needConfigure,
                         [obs EXCEPT !.trace = Append(@, "configure.ok")])
     ELSE /\ inv' = [inv EXCEPT !.pc = "done", !.result = "threw"]
          /\ obs' = [obs EXCEPT !.trace = Append(@, "configure.rejected")]
          /\ UNCHANGED << codeModelReady, globalState >>
  /\ UNCHANGED << cmakeSourceDirectory, mtime, clock >>

\* project.build(executableNames) settles and ensureBuilt resumes:
\* saveSourceMtimes and return true, or the rejection propagates
BuildReturns(ok) ==
  /\ inv.pc = "build"
  /\ IF ok
     THEN /\ globalState' = saveSourceMtimes(globalState, getProject, inv.executableNames)
          /\ inv' = [inv EXCEPT !.pc = "done", !.result = "true"]
          /\ obs' = [obs EXCEPT !.trace = Append(@, "build.ok")]
     ELSE /\ inv' = [inv EXCEPT !.pc = "done", !.result = "threw"]
          /\ obs' = [obs EXCEPT !.trace = Append(@, "build.rejected")]
          /\ UNCHANGED globalState
  /\ UNCHANGED << cmakeSourceDirectory, mtime, clock, codeModelReady >>

\* ensureBuilt on its own, called by any caller: the runner stands still
Next ==
  \/ \E f \in Files : Touch(f) /\ UNCHANGED << runVars, applied, emitter, track, overlap >>
  \/ \E f \in Files : Remove(f) /\ UNCHANGED << runVars, applied, emitter, track, overlap >>
  \/ \E dir \in CustomDirs :
       SetCmakeSourceDirectory(dir) /\ UNCHANGED << runVars, applied, emitter, track, overlap >>
  \/ \E names \in NameLists, project \in BOOLEAN :
       Call(names, project) /\ UNCHANGED << runVars, applied, emitter, track, overlap >>
  \/ \E ok \in BOOLEAN : ConfigureReturns(ok) /\ UNCHANGED << runVars, applied, emitter, track, overlap >>
  \/ \E ok \in BOOLEAN : BuildReturns(ok) /\ UNCHANGED << runVars, applied, emitter, track, overlap >>

Spec == Init /\ [][Next]_vars

(***************************************************************************)
(* ensureBuilt together with the build service it calls: configure and     *)
(* build read the files at some moment between the call and its return,    *)
(* first when they start and again whenever they look.  The setting is     *)
(* left alone and no file is deleted.                                      *)
(***************************************************************************)
\* the configure or build that ensureBuilt has just called starts reading
Started ==
  track' = IF inv'.pc \in {"configure", "build"}
           THEN [track EXCEPT !.consumed = mtime] ELSE track

TrackTouch(f) ==
  /\ Touch(f)
  /\ track' = [track EXCEPT !.raced = @ \/ inv.pc \in {"configure", "build"}]
  /\ UNCHANGED << runVars, applied, emitter, overlap >>

TrackCall(executableNames, project) ==
  /\ Call(executableNames, project)
  /\ Started
  /\ UNCHANGED << runVars, applied, emitter, overlap >>

\* the configure or build in progress reads the files as they are now
TrackRead ==
  /\ inv.pc \in {"configure", "build"}
  /\ track.consumed # mtime
  /\ track' = [track EXCEPT !.consumed = mtime]
  /\ UNCHANGED << buildVars, runVars, applied, emitter, overlap >>

TrackConfigureReturns(ok) ==
  /\ ConfigureReturns(ok)
  /\ Started
  /\ UNCHANGED << runVars, applied, emitter, overlap >>

\* a build that succeeded has built every target named from what it read
TrackBuildReturns(ok) ==
  /\ BuildReturns(ok)
  /\ track' = IF ok
              THEN [track EXCEPT !.built =
                      [t \in DOMAIN track.built \cup Range(inv.executableNames) |->
                         IF t \in Range(inv.executableNames)
                         THEN track.consumed ELSE track.built[t]]]
              ELSE track
  /\ UNCHANGED << runVars, applied, emitter, overlap >>

TrackNext ==
  \/ \E f \in Files : TrackTouch(f)
  \/ \E names \in NameLists, project \in BOOLEAN : TrackCall(names, project)
  \/ TrackRead
  \/ \E ok \in BOOLEAN : TrackConfigureReturns(ok)
  \/ \E ok \in BOOLEAN : TrackBuildReturns(ok)

TrackSpec == Init /\ [][TrackNext]_vars

(***************************************************************************)
(* Two ensureBuilt invocations that overlap.  The host runs a command      *)
(* handler while another one stands at an await, so a second invocation    *)
(* may be called, and may run any of its stretches, between two stretches  *)
(* of the first.  The invocation whose stretch comes next is the one in    *)
(* inv and obs; the one that waits is kept in overlap.                     *)
(***************************************************************************)
\* the code that runs reaches an await or its end, and the host goes on
\* with the other invocation or request
Switch ==
  /\ << inv, obs, run >> # << overlap.inv, overlap.obs, overlap.run >>
  /\ overlap' = [inv |-> inv, obs |-> obs, run |-> run]
  /\ inv' = overlap.inv
  /\ obs' = overlap.obs
  /\ run' = overlap.run
  /\ UNCHANGED << cmakeSourceDirectory, mtime, clock, codeModelReady, globalState,
                  results, emitted, runs, applied, emitter, track >>

\* a file is written: both invocations have seen a modification
OverlapTouch(f) ==
  /\ Touch(f)
  /\ overlap' = [overlap EXCEPT !.obs.modified = TRUE]
  /\ UNCHANGED << runVars, applied, emitter, track >>

OverlapNext ==
  \/ \E f \in Files : OverlapTouch(f)
  \/ \E names \in NameLists, project \in BOOLEAN :
       Call(names, project) /\ UNCHANGED << runVars, applied, emitter, track, overlap >>
  \/ \E ok \in BOOLEAN :
       ConfigureReturns(ok) /\ UNCHANGED << runVars, applied, emitter, track, overlap >>
  \/ \E ok \in BOOLEAN :
       BuildReturns(ok) /\ UNCHANGED << runVars, applied, emitter, track, overlap >>
  \/ Switch

OverlapSpec == Init /\ [][OverlapNext]_vars

(***************************************************************************)
(* runTestsWithNames and debugTestsWithNames, one action per stretch       *)
(* between two awaits.  Nothing is read between the call, the await on     *)
(* getProject and the call of ensureBuilt, so they are one step together   *)
(* with ensureBuilt's own first stretch; project is whether the build      *)
(* service has a project for the runner, ensureBuiltProject whether it has *)
(* one for ensureBuilt.  The working directory and the environment of the  *)
(* child are not modelled.                                                 *)
(***************************************************************************)
getGtestFlags == << >>

exitCodeOf(code) == IF code = "null" THEN -1 ELSE IF code = "0" THEN 0 ELSE 1

\* started is the request's place in the order the requests are made in
Request(mode, executable, fullNames) ==
  [IdleRun EXCEPT !.mode = mode, !.executable = executable, !.fullNames = fullNames,
                  !.started = runs + 1]

\* faulty variant: the tests are marked running before the project is asked
\* for
ProjectNotAvailableAfterMarking(mode, executable, fullNames) ==
  /\ run' = [Request(mode, executable, fullNames) EXCEPT
               !.pc = "done", !.result = "returned",
               !.trace = << "showErrorMessage" >>]
  /\ results' = setStatusEach(results, executable, fullNames, "running", 1)
  /\ emitted' = ChangedEach(executable, fullNames)
  /\ UNCHANGED buildVars

\* getProject resolved to undefined: the error is shown and the request ends
ProjectNotAvailable(mode, executable, fullNames) ==
  /\ run' = [Request(mode, executable, fullNames) EXCEPT
               !.pc = "done", !.result = "returned",
               !.trace = << "showErrorMessage" >>]
  /\ emitted' = << >>
  /\ UNCHANGED << results, buildVars >>

RunCall(mode, executable, fullNames, project, ensureBuiltProject) ==
  /\ run.pc \in {"idle", "done"}
  /\ inv.pc \in {"idle", "done"}
  /\ runs < MaxRuns
  /\ runs' = runs + 1
  /\ UNCHANGED << applied, emitter, track, overlap >>
  /\ IF Len(fullNames) = 0
     THEN /\ run' = [Request(mode, executable, fullNames) EXCEPT
                       !.pc = "done", !.result = "returned"]
          /\ emitted' = << >>
          /\ UNCHANGED << results, buildVars >>
     ELSE IF ~project
     THEN ProjectNotAvailable(mode, executable, fullNames)
     ELSE /\ run' = [Request(mode, executable, fullNames) EXCEPT
                       !.pc = "ensureBuilt"]
          /\ emitted' = << >>
          /\ UNCHANGED results
          /\ Call(<< executable >>, ensureBuiltProject)

\* the awaits of ensureBuilt while a request waits for it
RunConfigureReturns(ok) ==
  /\ run.pc = "ensureBuilt"
  /\ ConfigureReturns(ok)
  /\ UNCHANGED << runVars, applied, emitter, track, overlap >>

RunBuildReturns(ok) ==
  /\ run.pc = "ensureBuilt"
  /\ BuildReturns(ok)
  /\ UNCHANGED << runVars, applied, emitter, track, overlap >>

\* faulty variant: a debug request appends the default filter as a run does
EnsureBuiltReturnsDefaultFilter(baseFilter) ==
  /\ run.pc = "ensureBuilt"
  /\ inv.pc = "done"
  /\ IF inv.result = "threw"
     THEN run' = [run EXCEPT !.pc = "done", !.result = "threw"]
     ELSE LET exePath == getExecutablePath(getProject, run.executable)
          IN  IF exePath = "undefined"
              THEN run' = [run EXCEPT !.pc = "done", !.result = "returned",
                                      !.trace = Append(@, "showErrorMessage")]
              ELSE IF run.mode = "run"
              THEN run' = [run EXCEPT
                             !.pc = "getBuildDirectory",
                             !.exePath = exePath,
                             !.baseFilter = baseFilter,
                             !.args = << "--gtest_filter=" \o
                                         finalFilter(baseFilter, run.fullNames) >>
                                      \o getGtestFlags]
              ELSE run' = [run EXCEPT
                             !.pc = "getBuildDirectory",
                             !.exePath = exePath,
                             !.args = << "--gtest_filter=" \o
                                         finalFilter(baseFilter, run.fullNames) >>
                                      \o getGtestFlags]
  /\ UNCHANGED << buildVars, results, emitted, runs, applied, emitter, track, overlap >>

\* faulty variant: ensureBuilt is called but not awaited
EnsureBuiltReturnsNotAwaited(baseFilter) ==
  /\ run.pc = "ensureBuilt"
  /\ IF inv.pc = "done" /\ inv.result = "threw"
     THEN run' = [run EXCEPT !.pc = "done", !.result = "threw"]
     ELSE LET exePath == getExecutablePath(getProject, run.executable)
          IN  IF exePath = "undefined"
              THEN run' = [run EXCEPT !.pc = "done", !.result = "returned",
                                      !.trace = Append(@, "showErrorMessage")]
              ELSE IF run.mode = "run"
              THEN run' = [run EXCEPT
                             !.pc = "getBuildDirectory",
                             !.exePath = exePath,
                             !.baseFilter = baseFilter,
                             !.args = << "--gtest_filter=" \o
                                         finalFilter(baseFilter, run.fullNames) >>
                                      \o getGtestFlags]
              ELSE run' = [run EXCEPT
                             !.pc = "getBuildDirectory",
                             !.exePath = exePath,
                             !.args = << "--gtest_filter=" \o
                                         buildFilter(run.fullNames) >>
                                      \o getGtestFlags]
  /\ UNCHANGED << buildVars, results, emitted, runs, applied, emitter, track, overlap >>

\* faulty variant: a rejection of ensureBuilt is swallowed and the request
\* goes on
EnsureBuiltReturnsCatching(baseFilter) ==
  /\ run.pc = "ensureBuilt"
  /\ inv.pc = "done"
  /\ LET exePath == getExecutablePath(getProject, run.executable)
     IN  IF exePath = "undefined"
         THEN run' = [run EXCEPT !.pc = "done", !.result = "returned",
                                 !.trace = Append(@, "showErrorMessage")]
         ELSE IF run.mode = "run"
         THEN run' = [run EXCEPT
                        !.pc = "getBuildDirectory",
                        !.exePath = exePath,
                        !.baseFilter = baseFilter,
                        !.args = << "--gtest_filter=" \o
                                    finalFilter(baseFilter, run.fullNames) >>
                                 \o getGtestFlags]
         ELSE run' = [run EXCEPT
                        !.pc = "getBuildDirectory",
                        !.exePath = exePath,
                        !.args = << "--gtest_filter=" \o
                                    buildFilter(run.fullNames) >>
                                 \o getGtestFlags]
  /\ UNCHANGED << buildVars, results, emitted, runs, applied, emitter, track, overlap >>

\* ensureBuilt has settled: its rejection propagates, or the artifact is
\* looked up and the arguments are made, up to the await on
\* getBuildDirectory; baseFilter is what getGtestFilter returns
EnsureBuiltReturns(baseFilter) ==
  /\ run.pc = "ensureBuilt"
  /\ inv.pc = "done"
  /\ IF inv.result = "threw"
     THEN run' = [run EXCEPT !.pc = "done", !.result = "threw"]
     ELSE LET exePath == getExecutablePath(getProject, run.executable)
          IN  IF exePath = "undefined"
              THEN run' = [run EXCEPT !.pc = "done", !.result = "returned",
                                      !.trace = Append(@, "showErrorMessage")]
              ELSE IF run.mode = "run"
              THEN run' = [run EXCEPT
                             !.pc = "getBuildDirectory",
                             !.exePath = exePath,
                             !.baseFilter = baseFilter,
                             !.args = << "--gtest_filter=" \o
                                         finalFilter(baseFilter, run.fullNames) >>
                                      \o getGtestFlags]
              ELSE run' = [run EXCEPT
                             !.pc = "getBuildDirectory",
                             !.exePath = exePath,
                             !.args = << "--gtest_filter=" \o
                                         buildFilter(run.fullNames) >>
                                      \o getGtestFlags]
  /\ UNCHANGED << buildVars, results, emitted, runs, applied, emitter, track, overlap >>

\* faulty variant: the child is spawned without the tests being marked
GetBuildDirectoryReturnsUnmarked(launch) ==
  /\ run.pc = "getBuildDirectory"
  /\ IF run.mode = "run"
     THEN run' = [run EXCEPT !.pc = "process", !.launch = launch,
                             !.trace = Append(@, "spawn")]
     ELSE run' = [run EXCEPT !.pc = "startDebugging",
                             !.trace = Append(@, "startDebugging")]
  /\ UNCHANGED << buildVars, results, emitted, runs, applied, emitter, track, overlap >>

\* getBuildDirectory has resolved: a run marks its tests running and spawns
\* the child (launch is how the spawn goes), a debug request starts the
\* debug session
GetBuildDirectoryReturns(launch) ==
  /\ run.pc = "getBuildDirectory"
  /\ IF run.mode = "run"
     THEN /\ results' = setStatusEach(results, run.executable, run.fullNames,
                                      "running", 1)
          /\ emitted' = emitted \o ChangedEach(run.executable, run.fullNames)
          /\ run' = [run EXCEPT !.pc = "process", !.launch = launch,
                                !.trace = Append(@, "spawn")]
     ELSE /\ run' = [run EXCEPT !.pc = "startDebugging",
                                !.trace = Append(@, "startDebugging")]
          /\ UNCHANGED << results, emitted >>
  /\ UNCHANGED << buildVars, runs, applied, emitter, track, overlap >>

\* proc.stdout.on('data')
StdoutData(chunk) ==
  /\ run.pc = "process"
  /\ run.launch = "spawned"
  /\ run.data < MaxData
  /\ run' = [run EXCEPT !.stdout = @ \o chunk, !.data = @ + 1]
  /\ UNCHANGED << buildVars, results, emitted, runs, applied, emitter, track, overlap >>

\* proc.stderr.on('data')
StderrData(chunk) ==
  /\ run.pc = "process"
  /\ run.launch = "spawned"
  /\ run.data < MaxData
  /\ run' = [run EXCEPT !.stderr = @ \o chunk, !.data = @ + 1]
  /\ UNCHANGED << buildVars, results, emitted, runs, applied, emitter, track, overlap >>

\* runProcess has resolved with exitCode: where the run is once it has
\* resumed and come to its end
Resumed(exitCode) ==
  run' = [run EXCEPT !.pc = "done", !.result = "returned",
                     !.exitCode = exitCode,
                     !.baseFilter = "", !.args = << >>,
                     !.trace = Append(@, "appendTestRun")]

\* faulty variant: a non-zero exit code marks the tests failed
OnCloseByExitCode(exitCode) ==
  LET parsed == [i \in DOMAIN run.fullNames |->
                   [fullName |-> run.fullNames[i],
                    status |-> IF exitCode = 0 THEN "passed" ELSE "failed"]]
      combined == run.stdout \o "\n" \o run.stderr
  IN  /\ results' = setOutputEach(setStatusBulk(results, run.executable, parsed),
                                  run.executable, run.fullNames, combined, runs, 1)
      /\ emitted' = emitted \o << << run.executable, "" >> >>
                            \o ChangedEach(run.executable, run.fullNames)
      /\ Resumed(exitCode)

\* proc.on('close') resolves runProcess and the run resumes: the output is
\* parsed and statuses and output are written
OnClose(exitCode) ==
  LET parsed == parseGTestOutput(run.stdout, run.stderr, run.executable,
                                 run.fullNames)
      combined == run.stdout \o "\n" \o run.stderr
  IN  /\ results' = setOutputEach(setStatusBulk(results, run.executable, parsed),
                                  run.executable, run.fullNames, combined, runs, 1)
      /\ emitted' = emitted \o << << run.executable, "" >> >>
                            \o ChangedEach(run.executable, run.fullNames)
      /\ Resumed(exitCode)

\* the child ends and its streams are closed
ProcessCloses(code) ==
  /\ run.pc = "process"
  /\ run.launch = "spawned"
  /\ OnClose(exitCodeOf(code))
  /\ UNCHANGED << buildVars, runs, applied, emitter, track, overlap >>

\* the child could not be launched and 'close' follows the 'error' event
CloseAfterError ==
  /\ run.pc = "process"
  /\ run.launch = "failed"
  /\ OnClose(-2)
  /\ UNCHANGED << buildVars, runs, applied, emitter, track, overlap >>

\* vscode.debug.startDebugging settles
DebugStarted ==
  /\ run.pc = "startDebugging"
  /\ run' = [run EXCEPT !.pc = "done", !.result = "returned",
                        !.args = << >>]
  /\ UNCHANGED << buildVars, results, emitted, runs, applied, emitter, track, overlap >>

RunNext ==
  \/ \E mode \in Modes, executable \in Executables, fullNames \in FullNameLists,
        project \in BOOLEAN, ensureBuiltProject \in BOOLEAN :
       RunCall(mode, executable, fullNames, project, ensureBuiltProject)
  \/ \E ok \in BOOLEAN : RunConfigureReturns(ok)
  \/ \E ok \in BOOLEAN : RunBuildReturns(ok)
  \/ \E baseFilter \in GtestFilters : EnsureBuiltReturns(baseFilter)
  \/ \E launch \in Launches : GetBuildDirectoryReturns(launch)
  \/ \E chunk \in Chunks : StdoutData(chunk)
  \/ \E chunk \in ErrChunks : StderrData(chunk)
  \/ \E code \in CloseCodes : ProcessCloses(code)
  \/ CloseAfterError
  \/ DebugStarted

RunSpec == Init /\ [][RunNext]_vars

(***************************************************************************)
(* Two requests that overlap: a command handler is started while another  *)
(* one stands at an await of its run, so the stretches of the two runs     *)
(* interleave.  The request whose stretch comes next is the one in run,    *)
(* inv and obs; the one that waits is kept in overlap.                     *)
(***************************************************************************)
OverlapRunNext ==
  \/ RunNext
  \/ Switch

OverlapRunSpec == Init /\ [][OverlapRunNext]_vars

\* every await on the build service and on the debugger settles
Settles ==
  \/ \E ok \in BOOLEAN : RunConfigureReturns(ok)
  \/ \E ok \in BOOLEAN : RunBuildReturns(ok)
  \/ \E baseFilter \in GtestFilters : EnsureBuiltReturns(baseFilter)
  \/ \E launch \in Launches : GetBuildDirectoryReturns(launch)
  \/ DebugStarted

\* a child that was launched ends, and 'close' follows the 'error' of a
\* failed launch that is not thrown: the steps ProcessCloses and
\* CloseAfterError, said by where they leave the run (no other step of a run
\* in "process" leaves it there)
Closes ==
  \/ \E code \in CloseCodes :
       run.pc = "process" /\ run.launch = "spawned" /\ Resumed(exitCodeOf(code))
  \/ run.pc = "process" /\ run.launch = "failed" /\ Resumed(-2)

LiveSpec == RunSpec /\ WF_vars(Settles) /\ WF_run(Closes)

(***************************************************************************)
(* The pure functions of the runner applied to arguments.                  *)
(***************************************************************************)
ApplyBuildFilter(fullNames) ==
  /\ applied.fn = ""
  /\ applied' = [fn |-> "buildFilter", args |-> << fullNames >>,
                 value |-> buildFilter(fullNames)]
  /\ UNCHANGED << buildVars, runVars, emitter, track, overlap >>

ApplyParseGTestOutput(stdout, stderr, fullNames) ==
  /\ applied.fn = ""
  /\ applied' = [fn |-> "parseGTestOutput",
                 args |-> << stdout, stderr, "T", fullNames >>,
                 value |-> parseGTestOutput(stdout, stderr, "T", fullNames)]
  /\ UNCHANGED << buildVars, runVars, emitter, track, overlap >>

ApplyComposeDebugConfiguration(target, fullNames, buildDirectory, miDebuggerPath, envFile, launchFile) ==
  /\ applied.fn = ""
  /\ applied' = [fn |-> "composeDebugConfiguration",
                 args |-> << target[1], target[2], fullNames, buildDirectory,
                             miDebuggerPath, envFile, launchFile >>,
                 value |-> composeDebugConfiguration(
                             target[1], target[2], fullNames, buildDirectory,
                             miDebuggerPath, envFile, launchFile)]
  /\ UNCHANGED << buildVars, runVars, emitter, track, overlap >>

\* the lines of the pieces, each but the last followed by the line end
LinesOfPieces(pieces) ==
  LET RECURSIVE from(_)
      from(i) == IF i > Len(pieces) THEN << >> ELSE pieces[i] \o from(i + 1)
  IN  from(1)

TextOf(pieces, lineEnd) ==
  LET lines == LinesOfPieces(pieces)
      RECURSIVE upto(_)
      upto(i) == IF i = 0 THEN ""
                 ELSE IF i = 1 THEN lines[1]
                 ELSE upto(i - 1) \o lineEnd \o lines[i]
  IN  upto(Len(lines))

ApplyScanDocument(pieces, lineEnd) ==
  /\ applied.fn = ""
  /\ applied' = [fn |-> "scanDocument", args |-> << pieces, lineEnd >>,
                 value |-> scanDocument(TextOf(pieces, lineEnd))]
  /\ UNCHANGED << buildVars, runVars, emitter, track, overlap >>

ApplyScanFile(readable, pieces, lineEnd) ==
  /\ applied.fn = ""
  /\ applied' = [fn |-> "scanFile", args |-> << pieces, lineEnd, readable >>,
                 value |-> scanFile(readable, TextOf(pieces, lineEnd))]
  /\ UNCHANGED << buildVars, runVars, emitter, track, overlap >>

ApplyGetExecutableForFile(codeModel, sourceFilePath) ==
  /\ applied.fn = ""
  /\ applied' = [fn |-> "getExecutableForFile",
                 args |-> << codeModel, sourceFilePath >>,
                 value |-> getExecutableForFile([codeModel |-> codeModel],
                                                sourceFilePath)]
  /\ UNCHANGED << buildVars, runVars, emitter, track, overlap >>

\* what scanDirectory resolved to for the files found
ScannedFiles(filePaths) ==
  [i \in DOMAIN filePaths |->
     [filePath |-> filePaths[i], tests |-> scanFile(TRUE, FileText)]]

ApplySetWorkspace(hasProject, codeModel, filePaths) ==
  /\ applied.fn = ""
  /\ applied' = [fn |-> "setWorkspace",
                 args |-> << codeModel, filePaths, hasProject >>,
                 value |-> setWorkspace(hasProject, [codeModel |-> codeModel],
                                        ScannedFiles(filePaths))]
  /\ UNCHANGED << buildVars, runVars, emitter, track, overlap >>

ApplyProvideCodeLenses(hasProject, codeModel, filePath) ==
  /\ applied.fn = ""
  /\ applied' = [fn |-> "provideCodeLenses",
                 args |-> << codeModel, filePath, hasProject >>,
                 value |-> provideCodeLenses(hasProject, [codeModel |-> codeModel],
                                             filePath, FileText)]
  /\ UNCHANGED << buildVars, runVars, emitter, track, overlap >>

PureNext ==
  \/ \E fullNames \in NameSeqs(MaxNames) : ApplyBuildFilter(fullNames)
  \/ \E stdout \in StdoutTexts, stderr \in StderrTexts,
        fullNames \in NameSeqs(MaxNames) :
       ApplyParseGTestOutput(stdout, stderr, fullNames)
  \/ \E target \in DebugTargets, fullNames \in FullNameLists \ { << >> },
        buildDirectory \in BuildDirectories,
        miDebuggerPath \in MiDebuggerPathSettings,
        envFile \in EnvFileSettings, launchFile \in LaunchFiles :
       ApplyComposeDebugConfiguration(target, fullNames, buildDirectory,
                                      miDebuggerPath, envFile, launchFile)
  \/ \E n \in 0..MaxPieces, lineEnd \in LineEnds :
       \E pieces \in [1..n -> Pieces] : ApplyScanDocument(pieces, lineEnd)
  \/ \E n \in 0..MaxPieces, lineEnd \in LineEnds, readable \in BOOLEAN :
       \E pieces \in [1..n -> Pieces] : ApplyScanFile(readable, pieces, lineEnd)
  \/ \E codeModel \in TreeCodeModels, sourceFilePath \in TreeFiles :
       ApplyGetExecutableForFile(codeModel, sourceFilePath)
  \/ \E hasProject \in BOOLEAN, codeModel \in TreeCodeModels, n \in 0..MaxFiles :
       \E filePaths \in [1..n -> TreeFiles] :
         ApplySetWorkspace(hasProject, codeModel, filePaths)
  \/ \E hasProject \in BOOLEAN, codeModel \in TreeCodeModels, filePath \in TreeFiles :
       ApplyProvideCodeLenses(hasProject, codeModel, filePath)

PureSpec == Init /\ [][PureNext]_vars

(***************************************************************************)
(* The result store called directly: subscriptions to 'changed' and the    *)
(* three mutations, by any caller in any order.                            *)
(***************************************************************************)
\* this.emit('changed', executable, fullName): every listener added and not
\* removed is called once with the arguments
emit(em, executable, fullName) ==
  [em EXCEPT !.received =
     [id \in DOMAIN em.received |->
        IF id \in Range(em.handlers)
        THEN [n |-> em.received[id].n + 1, last |-> << executable, fullName >>]
        ELSE em.received[id]]]

\* faulty variant: the handler stays on the list
offNothing(handlers, id) == handlers

\* this.off('changed', handler): the handler, if it is on the list, leaves it
off(handlers, id) == SelectSeq(handlers, LAMBDA h : h # id)

\* faulty variant: 'changed' is emitted for every entry
emitBulkPerEntry(em, executable, entries) ==
  LET RECURSIVE from(_, _)
      from(e, i) == IF i > Len(entries) THEN e
                    ELSE from(emit(e, executable, entries[i].fullName), i + 1)
  IN  from(em, 1)

\* line 78
emitBulk(em, executable, entries) == emit(em, executable, "")

\* testStore.onChanged(cb): a new handler is added; the Disposable it returns
\* is known by the handler's number
CallOnChanged ==
  /\ Len(emitter.received) < MaxHandlers
  /\ emitter' = [emitter EXCEPT
                   !.handlers = Append(@, Len(emitter.received) + 1),
                   !.received = Append(@, [n |-> 0, last |-> << >>])]
  /\ UNCHANGED << buildVars, runVars, applied, track, overlap >>

\* a Disposable returned by onChanged is disposed, for the first time or
\* again; disposed is the caller's record of the Disposables it disposed
CallDispose(id) ==
  /\ id \in DOMAIN emitter.received
  /\ emitter' = [emitter EXCEPT !.handlers = off(@, id),
                                 !.disposed = @ \cup {id}]
  /\ UNCHANGED << buildVars, runVars, applied, track, overlap >>

CallSetStatus(executable, fullName, status) ==
  /\ emitter.calls < MaxCalls
  /\ results' = setStatus(results, executable, fullName, status)
  /\ emitted' = << << executable, fullName >> >>
  /\ emitter' = [emit(emitter, executable, fullName) EXCEPT !.calls = @ + 1]
  /\ UNCHANGED << buildVars, run, runs, applied, track, overlap >>

\* Date.now() is the number of the call
CallSetOutput(executable, fullName, output) ==
  /\ emitter.calls < MaxCalls
  /\ results' = setOutput(results, executable, fullName, output, emitter.calls + 1)
  /\ emitted' = << << executable, fullName >> >>
  /\ emitter' = [emit(emitter, executable, fullName) EXCEPT !.calls = @ + 1]
  /\ UNCHANGED << buildVars, run, runs, applied, track, overlap >>

CallSetStatusBulk(executable, entries) ==
  /\ emitter.calls < MaxCalls
  /\ results' = setStatusBulk(results, executable, entries)
  /\ emitted' = << << executable, "" >> >>
  /\ emitter' = [emitBulk(emitter, executable, entries) EXCEPT !.calls = @ + 1]
  /\ UNCHANGED << buildVars, run, runs, applied, track, overlap >>

StoreNext ==
  \/ CallOnChanged
  \/ \E id \in 1..MaxHandlers : CallDispose(id)
  \/ \E test \in StoreTests, status \in Statuses :
       CallSetStatus(test[1], test[2], status)
  \/ \E test \in StoreTests, output \in Outputs :
       CallSetOutput(test[1], test[2], output)
  \/ \E entries \in EntryLists : CallSetStatusBulk("T", entries)

StoreSpec == Init /\ [][StoreNext]_vars


TypeOK ==
  /\ cmakeSourceDirectory \in CustomDirs
  /\ getEffectiveProjectRoot \in Roots
  /\ mtime \in [Files -> 0..MaxTime]
  /\ inv.pc \in {"idle", "configure", "build", "done"}

(***************************************************************************)
(* Vocabulary of the properties: the staleness record of the data model,   *)
(* read from a storage value, and the steps of an invocation.              *)
(***************************************************************************)
Root == getEffectiveProjectRoot
CmakeFile(root) == root \o "/CMakeLists.txt"

lastCmakeMtime(store, root) == StorageGet(store, CmakeKey(root), 0)
lastSourceMtimes(store, root) == StorageGet(store, SourceKey(root), EmptyMap)

\* a storage entry as it is stored: << >> when there is none
Entry(store, key) == IF key \in DOMAIN store THEN << store[key] >> ELSE << >>

\* the build description of a root is newer than the persisted value
CmakeAdvanced(store, root) == mtime[CmakeFile(root)] > lastCmakeMtime(store, root)

\* every source path the code model lists under a named executable target
ListedSources(project, names) ==
  IF project.codeModel = << >> THEN {}
  ELSE LET projects == project.codeModel
       IN  UNION { UNION { UNION { Range(projects[i].targets[j].fileGroups[g]) :
                                     g \in DOMAIN projects[i].targets[j].fileGroups } :
                             j \in { k \in DOMAIN projects[i].targets :
                                       /\ projects[i].targets[k].type = "EXECUTABLE"
                                       /\ projects[i].targets[k].name \in Range(names) } } :
                     i \in DOMAIN projects }

\* the listed paths with one of the extensions the tracker follows
TrackedSources(project, names) ==
  { p \in ListedSources(project, names) : IsTrackedSource(p) }

\* the listed paths that have a persisted mtime and are newer than it
AdvancedSources(store, root, project, names) ==
  { p \in ListedSources(project, names) :
      /\ p \in DOMAIN lastSourceMtimes(store, root)
      /\ mtime[p] > lastSourceMtimes(store, root)[p] }

\* the listed paths without a persisted mtime
UnrecordedSources(store, root, project, names) ==
  { p \in ListedSources(project, names) : p \notin DOMAIN lastSourceMtimes(store, root) }

\* the tracked paths that are on disk and unrecorded, or newer than recorded
StaleTracked(store, root, project, names) ==
  { p \in TrackedSources(project, names) :
      mtime[p] > StorageGet(lastSourceMtimes(store, root), p, 0) }

Calls(trace, call) == Cardinality({ i \in DOMAIN trace : trace[i] = call })
Last(trace) == IF Len(trace) = 0 THEN "" ELSE trace[Len(trace)]

\* ensureBuilt is called (the step runs it up to its first await or return)
CallStep ==
  /\ inv.pc \in {"idle", "done"}
  /\ inv'.pc # "idle"
  /\ mtime' = mtime
  /\ cmakeSourceDirectory' = cmakeSourceDirectory
\* ... and the build service has a project for the root
CallWithProject == CallStep /\ inv'.result # "false"
\* the await on configure ends
ConfigureOkStep == inv.pc = "configure" /\ inv'.pc # "configure" /\ inv'.result # "threw"
ConfigureRejectStep == inv.pc = "configure" /\ inv'.result = "threw"
\* the await on build ends
BuildOkStep == inv.pc = "build" /\ inv'.pc = "done" /\ inv'.result = "true"
\* the step in which sourcesChanged is evaluated, and the project it reads
DecisionStep == (CallWithProject /\ inv'.pc # "configure") \/ ConfigureOkStep
ProjectAtDecision == Project(Root, codeModelReady'[Root])
BuildIssued == Last(obs'.trace) = "build"
\* the invocation that just ended was for this root and no file changed since
\* it was called
QuietSince == inv.pc = "done" /\ obs.root = Root /\ ~obs.modified

(***************************************************************************)
(* C1.  ensureBuilt issues exactly one configure call when the build       *)
(* description's mtime is greater than the lastCmakeMtime persisted for    *)
(* the root and none when it is not; the call is issued in the step that   *)
(* starts the invocation and no later step issues another; an ensureBuilt  *)
(* right after one that returned true, with no file modified since that    *)
(* one was called, issues no configure.  (The build service has a project  *)
(* for the root.)                                                          *)
(***************************************************************************)
C1_Step ==
  /\ CallWithProject =>
       Calls(obs'.trace, "configure") = IF CmakeAdvanced(globalState, Root) THEN 1 ELSE 0
  /\ ~CallStep => Calls(obs'.trace, "configure") = Calls(obs.trace, "configure")
  /\ (CallWithProject /\ QuietSince /\ inv.result = "true") =>
       Calls(obs'.trace, "configure") = 0
C1_ConfigureIffCmakeAdvanced == [][C1_Step]_vars

\* an invocation found the build description on disk, not newer than the
\* value an earlier invocation persisted, and returned true without configure
C1_Witness ==
  /\ inv.pc = "done" /\ inv.result = "true" /\ ~obs.modified
  /\ Calls(obs.trace, "configure") = 0
  /\ CmakeKey(obs.root) \in DOMAIN globalState
  /\ mtime[CmakeFile(obs.root)] # 0
  /\ mtime[CmakeFile(obs.root)] = globalState[CmakeKey(obs.root)]

(***************************************************************************)
(* C2.  When the configure call rejects, the storage (lastCmakeMtime and   *)
(* lastSourceMtimes of every root) is what it was when ensureBuilt was     *)
(* called: neither the step that issues configure nor the step in which    *)
(* it rejects changes it; no build call is issued in that invocation; and  *)
(* the next ensureBuilt for the same root, no file having changed, issues  *)
(* configure again.                                                        *)
(***************************************************************************)
C2_Step ==
  /\ (CallStep /\ inv'.pc = "configure") => globalState' = globalState
  /\ inv.pc = "configure" => Calls(obs.trace, "build") = 0
  /\ ConfigureRejectStep =>
       /\ globalState' = globalState
       /\ inv'.pc = "done"
       /\ Calls(obs'.trace, "build") = 0
  /\ (CallWithProject /\ QuietSince /\ Last(obs.trace) = "configure.rejected") =>
       obs'.trace = << "configure" >>
C2_ConfigureRejectedLeavesRecord == [][C2_Step]_vars

\* an invocation ended with the rejection of its configure call
C2_Witness ==
  /\ inv.pc = "done" /\ inv.result = "threw"
  /\ obs.trace = << "configure", "configure.rejected" >>

(***************************************************************************)
(* C3.  When the build call rejects, the next ensureBuilt for the same     *)
(* root and targets, no file having changed, issues the build call again,  *)
(* whether the failed build was caused by a stale source path or by the    *)
(* configure of the failed invocation.  (Stated for named targets that     *)
(* have source paths, all with a persisted mtime.)                         *)
(***************************************************************************)
C3_Step ==
  (/\ CallWithProject /\ QuietSince
   /\ Last(obs.trace) = "build.rejected"
   /\ inv'.executableNames = inv.executableNames
   /\ TrackedSources(getProject, inv.executableNames) # {}
   /\ TrackedSources(getProject, inv.executableNames)
        \subseteq DOMAIN lastSourceMtimes(globalState, Root))
  => Calls(obs'.trace, "build") = 1
C3_BuildRejectedIsRetried == [][C3_Step]_vars

(***************************************************************************)
(* C4.  For every source path the code model lists under a named           *)
(* executable target: if the path has a persisted mtime and its current    *)
(* mtime is greater, the invocation issues the build call when it comes    *)
(* to its build decision.                                                  *)
(***************************************************************************)
C4_Step ==
  DecisionStep =>
    (AdvancedSources(globalState, Root, ProjectAtDecision, inv'.executableNames) # {}
       => BuildIssued)
C4_AdvancedSourceIsBuilt == [][C4_Step]_vars

\* a build was issued without a configure, for a path newer than recorded
C4_Witness ==
  /\ inv.pc = "build" /\ obs.trace = << "build" >> /\ ~obs.modified
  /\ AdvancedSources(globalState, obs.root, getProject, inv.executableNames) # {}

(***************************************************************************)
(* C5.  A source path of a named target without an entry in the persisted  *)
(* lastSourceMtimes is always treated as changed: whenever there is such a *)
(* path the invocation issues the build call at its build decision, also   *)
(* when the path's modification time cannot be read.  (Stated for the      *)
(* paths with an extension the tracker follows.)                           *)
(***************************************************************************)
C5_Step ==
  DecisionStep =>
    ((\E p \in UnrecordedSources(globalState, Root, ProjectAtDecision, inv'.executableNames) :
        IsTrackedSource(p))
       => BuildIssued)
C5_UnrecordedSourceIsBuilt == [][C5_Step]_vars

(***************************************************************************)
(* C6.  An invocation that finds the build description not newer than the  *)
(* persisted lastCmakeMtime and no tracked source path of the named        *)
(* targets newer than its persisted mtime (none when unrecorded) issues    *)
(* neither configure nor build, returns true at once and leaves the        *)
(* storage unchanged.                                                      *)
(***************************************************************************)
C6_Step ==
  (/\ CallWithProject
   /\ ~CmakeAdvanced(globalState, Root)
   /\ StaleTracked(globalState, Root, getProject, inv'.executableNames) = {})
  => /\ inv'.pc = "done"
     /\ inv'.result = "true"
     /\ obs'.trace = << >>
     /\ globalState' = globalState
C6_NothingStaleNothingDone == [][C6_Step]_vars

\* an invocation returned true without a call although both a build
\* description record and a non-empty source record exist for its root
C6_Witness ==
  /\ inv.pc = "done" /\ inv.result = "true" /\ obs.trace = << >> /\ ~obs.modified
  /\ obs.root = Root
  /\ CmakeKey(Root) \in DOMAIN globalState
  /\ TrackedSources(getProject, inv.executableNames) # {}
  /\ TrackedSources(getProject, inv.executableNames)
       \subseteq DOMAIN lastSourceMtimes(globalState, Root)

(***************************************************************************)
(* C7.  Whenever an invocation's configure call succeeds, the invocation   *)
(* issues the build call next, whether or not a source path is stale, and  *)
(* when that build succeeds the persisted mtimes of the root hold the      *)
(* current mtime for exactly the paths in question and are unchanged       *)
(* (present or absent) for every other path.                               *)
(***************************************************************************)
\* saveSourceMtimes has updated exactly the paths of the set
UpdatedExactly(paths) ==
  LET old == lastSourceMtimes(globalState, Root)
      new == lastSourceMtimes(globalState', Root)
  IN  /\ SourceKey(Root) \in DOMAIN globalState'
      /\ \A p \in paths : p \in DOMAIN new /\ new[p] = mtime[p]
      /\ \A p \in SourceFiles \ paths :
           /\ p \in DOMAIN new <=> p \in DOMAIN old
           /\ p \in DOMAIN old => new[p] = old[p]
      /\ DOMAIN new \subseteq SourceFiles

C7_BuildFollowsConfigure ==
  /\ ConfigureOkStep =>
       /\ obs'.trace = << "configure", "configure.ok", "build" >>
       /\ inv'.pc = "build"
  /\ inv.pc = "build" =>
       (Calls(obs.trace, "configure") = 1 => obs.trace[2] = "configure.ok")

\* the claim as made: the paths are the source paths the code model lists
\* under the named executable targets
C7_OriginalStep ==
  /\ C7_BuildFollowsConfigure
  /\ (BuildOkStep /\ Calls(obs.trace, "configure") = 1) =>
       UpdatedExactly(ListedSources(getProject, inv.executableNames))
C7_Step ==
  /\ C7_BuildFollowsConfigure
  /\ (BuildOkStep /\ Calls(obs.trace, "configure") = 1) =>
       UpdatedExactly(TrackedSources(getProject, inv.executableNames))
C8_Step ==
  /\ globalState' # globalState =>
       LET root == Root
       IN  /\ \A r \in Roots \ {root} :
                /\ Entry(globalState', CmakeKey(r)) = Entry(globalState, CmakeKey(r))
                /\ Entry(globalState', SourceKey(r)) = Entry(globalState, SourceKey(r))
           /\ DOMAIN globalState' \subseteq
                DOMAIN globalState \cup {CmakeKey(root), SourceKey(root)}
  /\ CallWithProject =>
       LET root == Root
       IN  (/\ CmakeKey(root) \notin DOMAIN globalState
            /\ mtime[CmakeFile(root)] # 0)
           => obs'.trace = << "configure" >>
ExecutableNames == << "T", "U" >>

C9_Step ==
  (/\ CallWithProject
   /\ ~CmakeAdvanced(globalState, Root)
   /\ StaleTracked(globalState, Root, getProject, inv'.executableNames) = {}
   /\ StaleTracked(globalState, Root, getProject, ExecutableNames) # {})
  => Calls(obs'.trace, "build") = 0
C9_OtherTargetsDoNotTriggerBuild == [][C9_Step]_vars

\* an invocation for a target with recorded, current paths returned without
\* a build while a path of another target is stale
C9_Witness ==
  /\ inv.pc = "done" /\ inv.result = "true" /\ obs.trace = << >> /\ ~obs.modified
  /\ obs.root = Root
  /\ TrackedSources(getProject, inv.executableNames) # {}
  /\ StaleTracked(globalState, Root, getProject, inv.executableNames) = {}
  /\ StaleTracked(globalState, Root, getProject, ExecutableNames) # {}

(***************************************************************************)
(* C10.  While there is no build description file at the effective root,   *)
(* no step writes the root's lastCmakeMtime, and an invocation called then *)
(* issues no configure and issues the build call exactly when a tracked    *)
(* source path of the named targets is stale.                              *)
(***************************************************************************)
C10_Step ==
  mtime[CmakeFile(Root)] = 0 =>
    /\ Entry(globalState', CmakeKey(Root)) = Entry(globalState, CmakeKey(Root))
    /\ CallWithProject =>
         /\ Calls(obs'.trace, "configure") = 0
         /\ BuildIssued <=>
              StaleTracked(globalState, Root, getProject, inv'.executableNames) # {}
C10_NoBuildDescriptionNoConfigure == [][C10_Step]_vars

\* an invocation without a build description file builds for a stale path
C10_Witness ==
  /\ inv.pc = "build" /\ obs.trace = << "build" >>
  /\ obs.root = Root /\ ~obs.modified
  /\ mtime[CmakeFile(Root)] = 0

(***************************************************************************)
(* Vocabulary of the runner's properties.                                  *)
(***************************************************************************)
\* the keys of the tests a request names
RunKeys(r) == { testKey(r.executable, r.fullNames[i]) : i \in DOMAIN r.fullNames }

StatusOf(res, key) == IF key \in DOMAIN res THEN res[key].status ELSE "none"
OutputOf(res, key) == IF key \in DOMAIN res THEN res[key].output ELSE ""

\* the stored result of a key as it is stored: << >> when there is none
Stored(res, key) == IF key \in DOMAIN res THEN << res[key] >> ELSE << >>

AllKeys == DOMAIN results \cup DOMAIN results'

\* a request is made
RequestStep == run.pc \in {"idle", "done"} /\ run'.pc # "idle" /\ runs' # runs
\* the run marks its tests and spawns the child
SpawnStep == run.pc = "getBuildDirectory" /\ run'.pc = "process"
\* the 'close' event of the child resumes the run, which ends
CloseStep == run.pc = "process" /\ run'.pc = "done"

Count(trace, call) == Cardinality({ i \in DOMAIN trace : trace[i] = call })

(***************************************************************************)
(* C11.  Within one run the status of a test changes only along Running,   *)
(* then one of Passed, Failed, NotRun: a step that writes Running is the   *)
(* run's spawn step, a step that writes Passed, Failed or NotRun is the    *)
(* run's close step and finds the test Running; while the child runs every *)
(* named test is Running, when the run ends each named test is Passed,     *)
(* Failed or NotRun; and no step changes the stored result of a test the   *)
(* run does not name.                                                      *)
(***************************************************************************)
C11_Step ==
  /\ \A k \in AllKeys :
       Stored(results', k) # Stored(results, k) => k \in RunKeys(run)
  /\ \A k \in RunKeys(run) :
       /\ (StatusOf(results', k) # StatusOf(results, k)
             /\ StatusOf(results', k) = "running") => SpawnStep
       /\ (Stored(results', k) # Stored(results, k)
             /\ StatusOf(results', k) # "running")
            => /\ CloseStep
               /\ StatusOf(results, k) = "running"
               /\ StatusOf(results', k) \in {"passed", "failed", "none"}
       /\ run.pc = "process" => StatusOf(results, k) = "running"
       /\ SpawnStep => StatusOf(results', k) = "running"
       /\ CloseStep => StatusOf(results', k) \in {"passed", "failed", "none"}
C11_RunningThenOutcome == [][C11_Step]_vars

\* a run has ended with one of its tests passed and the other failed
C11_Witness ==
  /\ run.pc = "done"
  /\ run.mode = "run"
  /\ run.fullNames = << "S.a", "S.b" >>
  /\ Count(run.trace, "spawn") = 1
  /\ StatusOf(results, testKey(run.executable, "S.a")) = "passed"
  /\ StatusOf(results, testKey(run.executable, "S.b")) = "failed"

(***************************************************************************)
(* Marker lines, said without the scan of the parser: a line of a text is  *)
(* a maximal piece between line ends; it is a WORD marker line for a name  *)
(* when its leftmost "[ WORD ]" that is followed by white space and a      *)
(* token has exactly that name as the token.                               *)
(***************************************************************************)
AllSpace(s) == \A p \in 1..Len(s) : IsSpace(CharAt(s, p))

\* a line starts at the start of the text and after each line feed; it ends
\* where a line end or the end of the text follows, holds no line feed, and
\* does not end in the carriage return of its own line end
LinesOf(s) ==
  LET starts == { a \in 1..(Len(s) + 1) : a = 1 \/ CharAt(s, a - 1) = "\n" }
      \* the carriage returns that belong to a line end
      cr     == { c - 2 : c \in { c \in starts : c > 2 /\ CharAt(s, c - 2) = "\r" } }
      ends   == {Len(s)} \cup { c - 2 : c \in starts \ {1} } \cup { c - 1 : c \in cr }
  IN  { SubSeq(s, ab[1], ab[2]) : ab \in
          { ab \in starts \X ends :
              /\ ab[2] >= ab[1] - 1
              /\ \A c \in starts : c <= ab[1] \/ c > ab[2] + 1
              /\ ~(ab[2] >= ab[1] /\ ab[2] \in cr) } }

\* "[", white space, word, white space, "]" fills line[i..e]
MarkerAt(line, i, e, word) ==
  /\ CharAt(line, i) = "["
  /\ CharAt(line, e) = "]"
  /\ \E w \in (i + 1)..(e - Len(word)) :
       /\ SubSeq(line, w, w + Len(word) - 1) = word
       /\ AllSpace(SubSeq(line, i + 1, w - 1))
       /\ AllSpace(SubSeq(line, w + Len(word), e - 1))

\* a marker starts at i and white space and then a token follow it
ReportsAt(line, i, word) ==
  /\ CharAt(line, i) = "["
  /\ \E e \in i..Len(line) :
       /\ MarkerAt(line, i, e, word)
       /\ \E n \in (e + 2)..Len(line) :
            /\ AllSpace(SubSeq(line, e + 1, n - 1))
            /\ ~IsSpace(CharAt(line, n))

\* ... and the token is name
ReportsNameAt(line, i, word, name) ==
  /\ CharAt(line, i) = "["
  /\ \E e \in i..Len(line) :
       /\ MarkerAt(line, i, e, word)
       /\ \E n \in (e + 2)..Len(line) :
            /\ AllSpace(SubSeq(line, e + 1, n - 1))
            /\ n + Len(name) - 1 <= Len(line)
            /\ SubSeq(line, n, n + Len(name) - 1) = name
            /\ n + Len(name) - 1 = Len(line) \/ IsSpace(CharAt(line, n + Len(name)))

MarkerLineFor(line, word, name) ==
  /\ Len(line) >= Len(word) + Len(name) + 3
  /\ \E i \in 1..Len(line) :
       /\ ReportsNameAt(line, i, word, name)
       /\ \A h \in 1..(i - 1) : ~ReportsAt(line, h, word)

HasMarkerLineIn(lines, word, name) ==
  \E line \in lines : MarkerLineFor(line, word, name)

HasMarkerLine(stdout, stderr, word, name) ==
  HasMarkerLineIn(LinesOf(stdout) \cup LinesOf(stderr), word, name)

(***************************************************************************)
(* C12.  parseGTestOutput yields one outcome per requested name, in        *)
(* request order: passed when the captured text has a PASSED marker line   *)
(* for the name and no FAILED one, failed when it has a FAILED marker line *)
(* and no PASSED one, none when it has neither; names that only the text   *)
(* mentions get no outcome.                                                *)
(***************************************************************************)
C12_OneOutcomePerName ==
  applied.fn = "parseGTestOutput" =>
    LET stdout == applied.args[1]
        stderr == applied.args[2]
        fullNames == applied.args[4]
        value == applied.value
    IN  /\ Len(value) = Len(fullNames)
        /\ \A i \in DOMAIN fullNames :
             LET hasPassed == HasMarkerLine(stdout, stderr, "PASSED", fullNames[i])
                 hasFailed == HasMarkerLine(stdout, stderr, "FAILED", fullNames[i])
             IN  /\ value[i].fullName = fullNames[i]
                 /\ (hasPassed /\ ~hasFailed) => value[i].status = "passed"
                 /\ (hasFailed /\ ~hasPassed) => value[i].status = "failed"
                 /\ (~hasPassed /\ ~hasFailed) => value[i].status = "none"

\* the example of the specification: passed, failed, and not run for a name
\* that is the prefix of no reported name's token
C12_Witness ==
  /\ applied.fn = "parseGTestOutput"
  /\ applied.args[1] = "[  PASSED  ] S.a\n[  FAILED  ] S.b\n"
  /\ applied.args[2] = ""
  /\ applied.args[4] = << "S.a", "S.b", "S.ab" >>
  /\ applied.value = << [fullName |-> "S.a", status |-> "passed"],
                        [fullName |-> "S.b", status |-> "failed"],
                        [fullName |-> "S.ab", status |-> "none"] >>

(***************************************************************************)
(* C13.  What the close step of a run writes is a function of the captured *)
(* text and the requested names alone: for every exit code the child ends  *)
(* with (zero, non-zero, null), each named test gets the status its marker *)
(* lines give and the combined text as output, the other stored results    *)
(* stay; with no text captured every named test is NotRun, also after a    *)
(* non-zero exit.                                                          *)
(***************************************************************************)
\* the status the marker lines of the captured text give a name
StatusByMarkers(lines, name) ==
  IF HasMarkerLineIn(lines, "FAILED", name) THEN "failed"
  ELSE IF HasMarkerLineIn(lines, "PASSED", name) THEN "passed"
  ELSE "none"

C13_Step ==
  CloseStep =>
    /\ DOMAIN results' = DOMAIN results \cup RunKeys(run)
    /\ \A k \in DOMAIN results \ RunKeys(run) : results'[k] = results[k]
    /\ LET lines == IF run.stdout = "" /\ run.stderr = "" THEN {""}
                    ELSE LinesOf(run.stdout) \cup LinesOf(run.stderr)
       IN
       \A i \in DOMAIN run.fullNames :
         LET k == testKey(run.executable, run.fullNames[i])
         IN  /\ results'[k].status = StatusByMarkers(lines, run.fullNames[i])
             /\ results'[k].output = run.stdout \o "\n" \o run.stderr
             /\ (run.stdout = "" /\ run.stderr = "") => results'[k].status = "none"
C13_ExitCodeIsNotRead == [][C13_Step]_vars

\* a child that wrote nothing has ended with a non-zero exit code
C13_Witness ==
  /\ run.pc = "done"
  /\ Count(run.trace, "spawn") = 1
  /\ run.launch = "spawned"
  /\ run.exitCode = 1
  /\ run.stdout = "" /\ run.stderr = ""
  /\ run.fullNames = << "S.a", "S.b" >>
  /\ \A k \in RunKeys(run) : StatusOf(results, k) = "none"

(***************************************************************************)
(* C14.  Every test a run marks Running eventually leaves Running: once    *)
(* the child has been spawned or has failed to launch, the run eventually  *)
(* ends with each named test Passed, Failed or NotRun.                     *)
(***************************************************************************)
C14_NoTestStaysRunning ==
  (run.pc = "process")
    ~> (/\ run.pc = "done"
        /\ \A k \in RunKeys(run) :
             StatusOf(results, k) \in {"passed", "failed", "none"})

(***************************************************************************)
(* C15.  When the build service returns no project for the root, a run or  *)
(* debug request ends in the step that makes it: the Result Store is as    *)
(* before, no change notification is emitted, ensureBuilt is not called    *)
(* (no configure, no build, staleness record unchanged), and no process is *)
(* spawned and no debug session started; and an ensureBuilt that gets no   *)
(* project itself issues no configure and no build and leaves the          *)
(* staleness record unchanged.                                             *)
(***************************************************************************)
\* a request that names tests ends at once: the runner got no project
NoProjectStep == RequestStep /\ Len(run'.fullNames) > 0 /\ run'.pc = "done"
\* ensureBuilt is called and gets no project
EnsureBuiltNoProjectStep == inv' # inv /\ inv.pc \in {"idle", "done"} /\ inv'.result = "false"

C15_Step ==
  /\ NoProjectStep =>
       /\ results' = results
       /\ emitted' = << >>
       /\ globalState' = globalState
       /\ inv' = inv /\ obs' = obs
       /\ run'.trace = << "showErrorMessage" >>
       /\ run'.result = "returned"
  /\ EnsureBuiltNoProjectStep =>
       /\ globalState' = globalState
       /\ obs'.trace = << >>
       /\ inv'.pc = "done"
NoArtifact(name) ==
  codeModelReady[Root] =>
    \A i \in DOMAIN CodeModelProjects(Root) :
      \A j \in DOMAIN CodeModelProjects(Root)[i].targets :
        CodeModelProjects(Root)[i].targets[j].name = name
          => CodeModelProjects(Root)[i].targets[j].artifacts = << >>

\* ensureBuilt has returned to the request without throwing
AfterEnsureBuiltStep ==
  run.pc = "ensureBuilt" /\ run'.pc # "ensureBuilt" /\ inv.result # "threw"

C16_Step ==
  /\ (RequestStep \/ run.pc = "ensureBuilt") =>
       /\ results' = results
       /\ emitted' = << >>
  /\ (AfterEnsureBuiltStep /\ NoArtifact(run.executable)) =>
       /\ run'.pc = "done"
       /\ run'.trace = << "showErrorMessage" >>
       /\ \A k \in RunKeys(run) : Stored(results', k) = Stored(results, k)
C16_NoArtifactNoRun == [][C16_Step]_vars

\* a run of a target that was built but has no artifact has ended
C16_Witness ==
  /\ run.pc = "done"
  /\ run.mode = "run"
  /\ run.executable = "U"
  /\ run.fullNames = << "S.a", "S.b" >>
  /\ run.trace = << "showErrorMessage" >>
  /\ Last(obs.trace) = "build.ok"
  /\ codeModelReady[Root]
  /\ \A k \in RunKeys(run) : StatusOf(results, k) = "none"

(***************************************************************************)
(* C17, as stated: while the configure or build of a run is in progress    *)
(* each named test is Running in the Result Store.                         *)
(***************************************************************************)
C17_Original ==
  (run.mode = "run" /\ run.pc = "ensureBuilt" /\ inv.pc \in {"configure", "build"})
    => \A k \in RunKeys(run) : StatusOf(results, k) = "running"

(***************************************************************************)
(* C17, amended.  A run marks every named test Running after ensureBuilt   *)
(* has returned and the artifact is resolved, in the step that spawns the  *)
(* child: while the configure or build of the run is in progress the       *)
(* stored result of each named test is what it was before the call, and    *)
(* while the child runs each named test is Running.                        *)
(***************************************************************************)
C17_Step ==
  /\ (RequestStep \/ run.pc = "ensureBuilt") =>
       \A k \in RunKeys(run') : Stored(results', k) = Stored(results, k)
  /\ SpawnStep =>
       /\ inv.pc = "done"
       /\ Last(run'.trace) = "spawn"
       /\ run'.exePath # "undefined"
       /\ \A k \in RunKeys(run) : StatusOf(results', k) = "running"
  /\ (\E k \in AllKeys : /\ StatusOf(results', k) = "running"
                         /\ StatusOf(results, k) # "running") => SpawnStep
  /\ run.pc = "process" => \A k \in RunKeys(run) : StatusOf(results, k) = "running"
C17_RunningFromSpawnOn == [][C17_Step]_vars

\* the build of a run is in progress and a test it names still shows the
\* outcome of the run before
C17_Witness ==
  /\ run.mode = "run"
  /\ run.pc = "ensureBuilt"
  /\ inv.pc = "build"
  /\ run.fullNames = << "S.a", "S.b" >>
  /\ StatusOf(results, testKey(run.executable, "S.a")) = "passed"

(***************************************************************************)
(* C18.  buildFilter returns "*" for an empty name list and otherwise the  *)
(* names joined by ":" in the given order, with no leading and no trailing *)
(* separator; a single name is returned unchanged.                         *)
(***************************************************************************)
\* where the i-th name starts in the colon-joined text of names
StartOf(names, i) ==
  LET RECURSIVE before(_)
      before(j) == IF j = 0 THEN 0 ELSE before(j - 1) + Len(names[j]) + 1
  IN  before(i - 1) + 1

C18_BuildFilterJoins ==
  applied.fn = "buildFilter" =>
    LET names == applied.args[1]
        text  == applied.value
        n     == Len(names)
    IN  /\ n = 0 => text = "*"
        /\ n = 1 => text = names[1]
        /\ n > 0 =>
             /\ Len(text) = StartOf(names, n) + Len(names[n]) - 1
             /\ \A i \in 1..n :
                  /\ SubSeq(text, StartOf(names, i),
                            StartOf(names, i) + Len(names[i]) - 1) = names[i]
                  /\ i < n => CharAt(text, StartOf(names, i) + Len(names[i])) = ":"

\* three names, one of them twice, joined in the order given
C18_Witness ==
  /\ applied.fn = "buildFilter"
  /\ applied.args = << << "S.b", "S.a", "S.b" >> >>
  /\ applied.value = "S.b:S.a:S.b"

\* the empty list gives the match-all filter
C18_WitnessEmpty ==
  /\ applied.fn = "buildFilter"
  /\ applied.args = << << >> >>
  /\ applied.value = "*"

(***************************************************************************)
(* C19.  The filter argument of a run is the colon-joined names, followed  *)
(* by ":" and the configured default filter exactly when that filter is    *)
(* non-empty and does not start with "-"; with an empty default filter it  *)
(* is the colon-joined names alone.  The argument the child is spawned     *)
(* with is that one.                                                       *)
(***************************************************************************)
ColonJoined(names) ==
  LET RECURSIVE upto(_)
      upto(i) == IF i = 1 THEN names[1] ELSE upto(i - 1) \o ":" \o names[i]
  IN  upto(Len(names))

FilterStep ==
  /\ run.mode = "run"
  /\ run.pc = "ensureBuilt"
  /\ run'.pc = "getBuildDirectory"

C19_Step ==
  /\ FilterStep =>
       LET base     == run'.baseFilter
           appended == base # "" /\ CharAt(base, 1) # "-"
       IN  /\ base \in GtestFilters
           /\ run'.args = << "--gtest_filter=" \o ColonJoined(run.fullNames)
                               \o (IF appended THEN ":" \o base ELSE "") >>
  /\ SpawnStep => run'.args = run.args
C19_WitnessExcluding ==
  /\ run.mode = "run"
  /\ run.pc = "process"
  /\ run.baseFilter = "-S.c"
  /\ run.args = << "--gtest_filter=S.a" >>

(***************************************************************************)
(* C20.  When a run completes, getOutput returns that run's combined text  *)
(* (its stdout, a line feed, its stderr) for every test the run names; no  *)
(* other step changes a stored output, so after any sequence of runs the   *)
(* output of a test is the combined text of the latest run that named it   *)
(* and never a concatenation with the text of an earlier run.              *)
(***************************************************************************)
C20_Step ==
  /\ CloseStep =>
       \A i \in DOMAIN run.fullNames :
         getOutput(results', run.executable, run.fullNames[i])
           = run.stdout \o "\n" \o run.stderr
  /\ \A k \in AllKeys :
       OutputOf(results', k) # OutputOf(results, k) =>
         CloseStep /\ k \in RunKeys(run)
  /\ (run.pc = "done" /\ Count(run.trace, "appendTestRun") = 1) =>
       \A i \in DOMAIN run.fullNames :
         getOutput(results, run.executable, run.fullNames[i])
           = run.stdout \o "\n" \o run.stderr
C20_OutputIsLatestRun == [][C20_Step]_vars

\* a second run of S.a has completed with a text other than the one the
\* first run wrote for S.a and S.b; S.b, which only the first run named,
\* still holds the first text
C20_Witness ==
  /\ runs = 2
  /\ run.pc = "done"
  /\ Count(run.trace, "appendTestRun") = 1
  /\ run.fullNames = << "S.a" >>
  /\ testKey(run.executable, "S.b") \in DOMAIN results
  /\ results[testKey(run.executable, "S.b")].lastRunTime = 1
  /\ Len(getOutput(results, run.executable, "S.b")) > 1
  /\ Len(run.stderr) > 0
  /\ getOutput(results, run.executable, "S.a") = "\n" \o run.stderr
  /\ getOutput(results, run.executable, "S.a")
       # getOutput(results, run.executable, "S.b")

(***************************************************************************)
(* Vocabulary of the store properties: the observers whose subscription    *)
(* has not been disposed, and what a mutation delivered to each observer.  *)
(***************************************************************************)
Registered(em) == DOMAIN em.received \ em.disposed

\* every observer not disposed was called once more, with (executable,
\* fullName); every disposed observer was not called
NotifiedOnce(executable, fullName) ==
  \A id \in DOMAIN emitter.received :
    emitter'.received[id] =
      IF id \in Registered(emitter)
      THEN [n |-> emitter.received[id].n + 1,
            last |-> << executable, fullName >>]
      ELSE emitter.received[id]

\* the status of the last entry of entries that names fullName
LastStatus(entries, fullName) ==
  LET at == { i \in DOMAIN entries : entries[i].fullName = fullName }
  IN  entries[CHOOSE i \in at : \A j \in at : j <= i].status

(***************************************************************************)
(* C21: after setStatusBulk(executable, entries), getStatus returns, for   *)
(* every name an entry supplies, the status of the last entry that         *)
(* supplies it, and the call emits exactly one change notification,        *)
(* (executable, ''), to every observer, whatever the number of entries:    *)
(* none, several, or several for one name.                                 *)
(***************************************************************************)
C21_Step ==
  \A entries \in EntryLists :
    CallSetStatusBulk("T", entries) =>
      /\ \A i \in DOMAIN entries :
           getStatus(results', "T", entries[i].fullName)
             = LastStatus(entries, entries[i].fullName)
      /\ NotifiedOnce("T", "")
      /\ emitted' = << << "T", "" >> >>
C21_BulkLastEntryOneNotification == [][C21_Step]_vars

\* the statement as written: every entry's own status is what getStatus
\* returns for its name
C21_OriginalStep ==
  \A entries \in EntryLists :
    CallSetStatusBulk("T", entries) =>
      \A i \in DOMAIN entries :
        getStatus(results', "T", entries[i].fullName) = entries[i].status
C21_Original == [][C21_OriginalStep]_vars

\* the first call was setStatusBulk with the entries (S.a, passed),
\* (S.a, failed): S.a is failed, S.b was never written, and the one
\* observer was called once with (T, '')
C21_Witness ==
  /\ emitter.calls = 1
  /\ emitted = << << "T", "" >> >>
  /\ DOMAIN results = { testKey("T", "S.a") }
  /\ getStatus(results, "T", "S.a") = "failed"
  /\ Len(emitter.received) = 1
  /\ emitter.received[1] = [n |-> 1, last |-> << "T", "" >>]

(***************************************************************************)
(* C22: after setStatus the next getStatus for the key returns the status  *)
(* written, after setOutput the next getOutput returns the output written; *)
(* each of the two calls notifies every observer whose subscription is not *)
(* disposed exactly once, with the key's executable and name, and an       *)
(* observer whose subscription is disposed is not called again.            *)
(***************************************************************************)
C22_Step ==
  /\ \A test \in StoreTests, status \in Statuses :
       CallSetStatus(test[1], test[2], status) =>
         /\ getStatus(results', test[1], test[2]) = status
         /\ NotifiedOnce(test[1], test[2])
  /\ \A test \in StoreTests, output \in Outputs :
       CallSetOutput(test[1], test[2], output) =>
         /\ getOutput(results', test[1], test[2]) = output
         /\ NotifiedOnce(test[1], test[2])
C22_VisibleAndNotifiedOnce == [][C22_Step]_vars

\* two observers subscribed, a first mutation reached both, the first
\* observer's subscription was disposed, and the second mutation, a
\* setOutput, reached the second observer alone
C22_Witness ==
  /\ emitter.calls = 2
  /\ emitter.disposed = {1}
  /\ Len(emitter.received) = 2
  /\ emitter.received[1].n = 1
  /\ emitter.received[2] = [n |-> 2, last |-> << "U", "S.a" >>]
  /\ emitter.received[1].last # emitter.received[2].last
  /\ getOutput(results, "U", "S.a") = "y"
  /\ results[testKey("U", "S.a")].lastRunTime = 2

(***************************************************************************)
(* C25: the filter argument of a debug request is exactly the selected     *)
(* names joined by colons, whatever the value of the setting               *)
(* gtest-plugin.gtestFilter: the default filter is never appended.         *)
(***************************************************************************)
C25_Step ==
  \A baseFilter \in GtestFilters :
    (run.mode = "debug" /\ EnsureBuiltReturns(baseFilter)
       /\ run'.pc = "getBuildDirectory") =>
      run'.args = << "--gtest_filter=" \o ColonJoined(run.fullNames) >>
                    \o getGtestFlags
C25_DebugFilterIsNamesOnly == [][C25_Step]_vars

\* a debug request for two tests has its arguments and waits for the build
\* directory
C25_Witness ==
  /\ run.mode = "debug"
  /\ run.pc = "getBuildDirectory"
  /\ Len(run.fullNames) = 2
  /\ run.args = << "--gtest_filter=S.a:S.b" >>

(***************************************************************************)
(* Vocabulary of the debug configuration properties: the arguments of the  *)
(* composition, a field of the result that may be absent, and the first    *)
(* configuration of launch.json that matches the artifact.                 *)
(***************************************************************************)
Composed == applied.fn = "composeDebugConfiguration"
ExePathArg == applied.args[2]
BuildDirectoryArg == applied.args[4]
MiDebuggerPathArg == applied.args[5]
EnvFileArg == applied.args[6]
LaunchFileArg == applied.args[7]

\* << v >> when config has the field with value v, << >> when it has not
Field(config, name) ==
  IF name \in DOMAIN config THEN << config[name] >> ELSE << >>

\* c is a cppdbg configuration whose program, with ${workspaceFolder}
\* replaced and slashes forward, is exePath or has exePath's file name
IsMatch(c, exePath) ==
  /\ c.type = "cppdbg"
  /\ c.program \notin {"undefined", ""}
  /\ LET program == replaceAll(replaceAll(c.program, "${workspaceFolder}",
                                          WorkspaceFolder), "\\", "/")
     IN  \/ program = exePath
         \/ basename(program) = basename(exePath)

\* the matching configuration: << >> when the file is missing, is not JSON,
\* has no configurations or none that matches
Matching(launchFile, exePath) ==
  LET configs == launchFile.configurations
      at == { i \in DOMAIN configs : IsMatch(configs[i], exePath) }
  IN  IF launchFile.kind # "json" \/ at = {} THEN << >>
      ELSE << configs[CHOOSE i \in at : \A j \in at : i <= j] >>

\* the field of the matching configuration, << >> when there is no match or
\* the match has no value for it
FromLaunch(name) ==
  LET m == Matching(LaunchFileArg, ExePathArg)
  IN  IF m = << >> \/ m[1][name] \in {"undefined", ""} THEN << >>
      ELSE << replaceAll(m[1][name], "${workspaceFolder}", WorkspaceFolder) >>

Blank(setting) == \A i \in 1..Len(setting) : CharAt(setting, i) = " "

Trimmed(setting) ==
  LET at == { i \in 1..Len(setting) : CharAt(setting, i) # " " }
  IN  IF at = {} THEN ""
      ELSE SubSeq(setting, CHOOSE i \in at : \A j \in at : i <= j,
                           CHOOSE i \in at : \A j \in at : j <= i)

C24_OwnedFieldsIgnoreLaunch ==
  Composed =>
    /\ \A launchFile \in LaunchFiles :
         LET other == composeDebugConfiguration(
                        applied.args[1], applied.args[2], applied.args[3],
                        applied.args[4], applied.args[5], applied.args[6],
                        launchFile)
         IN  /\ other.program = applied.value.program
             /\ other.args = applied.value.args
             /\ other.cwd = applied.value.cwd
    /\ applied.value.program = ExePathArg
    /\ applied.value.args = << "--gtest_filter=" \o ColonJoined(applied.args[3]) >>
    /\ IF BuildDirectoryArg \notin {"undefined", ""}
       THEN applied.value.cwd = BuildDirectoryArg
       ELSE \E k \in 1..Len(ExePathArg) :
              /\ applied.value.cwd = SubSeq(ExePathArg, 1, k - 1)
              /\ CharAt(ExePathArg, k) = "/"
              /\ \A j \in (k + 1)..Len(ExePathArg) : CharAt(ExePathArg, j) # "/"

\* a launch.json whose matching configuration gave the debugger path and
\* the env file, with no build directory: program is the artifact and cwd
\* its directory
C24_Witness ==
  /\ Composed
  /\ LaunchFileArg = LaunchFile("json", << ByName >>)
  /\ BuildDirectoryArg = "undefined"
  /\ MiDebuggerPathArg = ""
  /\ applied.value.miDebuggerPath = "/l/gdb"
  /\ applied.value.envFile = "/a/l.env"
  /\ applied.value.program = "/b/sub/T"
  /\ applied.value.cwd = "/b/sub"

(***************************************************************************)
(* Vocabulary of the scanner properties: a scan that read its text, the    *)
(* lines of that text, and the declaration each line of the texts holds,   *)
(* by the way the text was made.                                           *)
(***************************************************************************)
Scanned ==
  \/ applied.fn = "scanDocument"
  \/ applied.fn = "scanFile" /\ applied.args[3]

ScannedLines == LinesOfPieces(applied.args[1])

\* << macro, suite, name >> of the single-line declaration that starts the
\* line, if it starts with one
DeclarationOn(line) ==
  { << macro, "A", "b" >> : macro \in { m \in Macros : line = m \o "(A, b)" } }
  \cup { << macro, "B_1", "c" >> :
           macro \in { m \in Macros : line = "\t " \o m \o " ( B_1 ,c ) {" } }
  \cup (IF line = "TEST_F(A, d) TEST(A, e)" THEN { << "TEST_F", "A", "d" >> } ELSE {})

C27_LineOrder ==
  Scanned =>
    \A i, j \in DOMAIN applied.value :
      i < j => applied.value[i].line <= applied.value[j].line

(***************************************************************************)
(* Vocabulary of the ownership properties: paths that are equal up to the  *)
(* direction of their separators, and the executable targets of a code     *)
(* model that list a file.                                                 *)
(***************************************************************************)
IsSeparator(c) == c \in {"/", "\\"}

SamePath(a, b) ==
  /\ Len(a) = Len(b)
  /\ \A i \in 1..Len(a) :
       \/ CharAt(a, i) = CharAt(b, i)
       \/ IsSeparator(CharAt(a, i)) /\ IsSeparator(CharAt(b, i))

\* the names of the targets of kind executable that list a source equal to
\* file up to separators
OwnersOf(codeModel, file) ==
  LET targets == UNION { Range(codeModel[i].targets) : i \in DOMAIN codeModel }
  IN  { t.name :
          t \in { u \in targets :
                    /\ u.type = "EXECUTABLE"
                    /\ \E g \in DOMAIN u.fileGroups :
                         \E k \in DOMAIN u.fileGroups[g] :
                           SamePath(u.fileGroups[g][k], file) } }

\* the test nodes of a tree
TestNodes(roots) ==
  UNION { UNION { Range(roots[e].children[u].children) :
                    u \in DOMAIN roots[e].children } : e \in DOMAIN roots }

(***************************************************************************)
(* C28: getExecutableForFile(file) returns a target name only if that      *)
(* target is of kind executable and lists a source equal to file after     *)
(* separator normalization, and returns none exactly when no executable    *)
(* target lists such a source; a file with no owning target has no test    *)
(* node in the tree and no code lens.                                      *)
(***************************************************************************)
C28_ExactOwnerOrNothing ==
  /\ applied.fn = "getExecutableForFile" =>
       /\ applied.value # "undefined" =>
            applied.value \in OwnersOf(applied.args[1], applied.args[2])
       /\ applied.value = "undefined" <=>
            OwnersOf(applied.args[1], applied.args[2]) = {}
  /\ applied.fn = "setWorkspace" =>
       \A node \in TestNodes(applied.value) :
         /\ node.filePath \in Range(applied.args[2])
         /\ node.executable \in OwnersOf(applied.args[1], node.filePath)
  /\ applied.fn = "provideCodeLenses" =>
       (OwnersOf(applied.args[1], applied.args[2]) = {} => applied.value = << >>)

\* /s/v.cpp, listed by the executable V and by the library L, and
\* /s/l.cpp, listed by the library alone, have been scanned: the tree has
\* the three tests of /s/v.cpp under V and none of /s/l.cpp
C28_Witness ==
  /\ applied.fn = "setWorkspace"
  /\ applied.args[2] = << "/s/l.cpp", "/s/v.cpp" >>
  /\ OwnersOf(applied.args[1], "/s/l.cpp") = {}
  /\ OwnersOf(applied.args[1], "/s/v.cpp") = {"V"}
  /\ Len(applied.value) = 1
  /\ Cardinality(TestNodes(applied.value)) = 3
  /\ \A node \in TestNodes(applied.value) :
       node.filePath = "/s/v.cpp" /\ node.executable = "V"

(***************************************************************************)
(* Vocabulary of the freshness properties: the files a target is built     *)
(* from as ensureBuilt sees them (its tracked sources and the build        *)
(* description of the root), and a build of the target that read each of   *)
(* them as it is now.                                                      *)
(***************************************************************************)
InputsOf(target) ==
  getSourcePathsForExecutables(getProject, << target >>) \cup findCmakeLists

BuiltFresh(target) ==
  /\ target \in DOMAIN track.built
  /\ \A f \in InputsOf(target) : track.built[target][f] >= mtime[f]

(***************************************************************************)
(* C29: whenever ensureBuilt(root, [T]) has returned success for an        *)
(* executable T, with no file modified since that call was made and none   *)
(* ever modified while a configure or build was in progress, a build of T  *)
(* has succeeded that read every source of T and the build description as  *)
(* they are now, whatever calls for other targets came before.             *)
(***************************************************************************)
C29_SuccessMeansBuiltFresh ==
  (/\ inv.pc = "done"
   /\ inv.result = "true"
   /\ Len(inv.executableNames) = 1
   /\ inv.executableNames[1] \in Executables
   /\ ~obs.modified
   /\ ~track.raced) =>
    BuiltFresh(inv.executableNames[1])

(***************************************************************************)
(* C30: the mtime persisted after a configure or a build that succeeded is *)
(* never newer than the file state that call read, so that a file modified *)
(* while the call was in progress is found changed by the next             *)
(* ensureBuilt.                                                            *)
(***************************************************************************)
C30_Step ==
  /\ (inv.pc = "build" /\ inv'.pc = "done" /\ inv'.result = "true") =>
       \A p \in getSourcePathsForExecutables(getProject, inv.executableNames) :
         StorageGet(globalState', SourceKey(getEffectiveProjectRoot), EmptyMap)[p]
           <= track.consumed[p]
  /\ (inv.pc = "configure" /\ inv'.result # "threw" /\ findCmakeLists # {}) =>
       StorageGet(globalState', CmakeKey(getEffectiveProjectRoot), 0)
         <= Max({ track.consumed[f] : f \in findCmakeLists })
C30_PersistedNotNewerThanConsumed == [][C30_Step]_vars

(***************************************************************************)
(* C40: when the captured text holds a FAILED marker line and a PASSED     *)
(* marker line for the same requested name, parseGTestOutput gives the     *)
(* name the status failed, whichever of the two lines comes first and      *)
(* whichever stream each is on.                                            *)
(***************************************************************************)
C40_FailedWinsOverPassed ==
  applied.fn = "parseGTestOutput" =>
    \A i \in DOMAIN applied.args[4] :
      (/\ HasMarkerLine(applied.args[1], applied.args[2], "FAILED", applied.args[4][i])
       /\ HasMarkerLine(applied.args[1], applied.args[2], "PASSED", applied.args[4][i])) =>
        applied.value[i].status = "failed"

\* the PASSED line comes first and the name is given failed
C40_Witness ==
  /\ applied.fn = "parseGTestOutput"
  /\ applied.args[1] = "[ PASSED ] S.a\n[ FAILED ] S.a"
  /\ applied.args[4] = << "S.a" >>
  /\ applied.value = << [fullName |-> "S.a", status |-> "failed"] >>

(***************************************************************************)
(* C33: the tree and the code lenses resolve a file to the same            *)
(* executable: every test node of the tree stands under the executable     *)
(* that getExecutableForFile returns for the node's file, also when more   *)
(* than one executable target lists the file.                              *)
(***************************************************************************)
C33_ResolutionsAgree ==
  (applied.fn = "setWorkspace" /\ applied.args[3]) =>
    \A node \in TestNodes(applied.value) :
      node.executable =
        getExecutableForFile([codeModel |-> applied.args[1]], node.filePath)

(***************************************************************************)
(* C34: every non-empty default filter takes effect on a run: the filter   *)
(* argument the child is spawned with contains the text of the setting     *)
(* gtestFilter whenever that text is not empty, also when it is an         *)
(* exclusion pattern that begins with "-".                                 *)
(***************************************************************************)
\* part occurs in text
Occurs(part, text) ==
  \E i \in 1..(Len(text) - Len(part) + 1) : SubSeq(text, i, i + Len(part) - 1) = part

C34_DefaultFilterTakesEffect ==
  (run.mode = "run" /\ run.pc = "process" /\ run.baseFilter # "") =>
    Occurs(run.baseFilter, run.args[1])

(***************************************************************************)
(* C35: a run requested with an empty list of names goes through           *)
(* ensureBuilt and spawns the binary with the filter expression "*": a     *)
(* run request with no names that has ended without an error shown or      *)
(* thrown has spawned a child with the argument --gtest_filter=*.          *)
(***************************************************************************)
C35_EmptyListRunsAll ==
  (run.mode = "run" /\ run.pc = "done" /\ run.fullNames = << >>
     /\ run.result # "threw" /\ Count(run.trace, "showErrorMessage") = 0) =>
    /\ Count(run.trace, "spawn") = 1
    /\ run.args = << "--gtest_filter=*" >>

(***************************************************************************)
(* C37: when configure or build rejects during a run or debug request, the *)
(* request ends there: the step at which the rejection arrives leaves the  *)
(* staleness records as the stages before it persisted them, the request   *)
(* ends as thrown with no child spawned and no debug session started, and  *)
(* from the call to that end the result store is not written and no        *)
(* change is notified.                                                     *)
(***************************************************************************)
\* configure or build rejects
RejectStep == inv.pc \in {"configure", "build"} /\ inv'.result = "threw"

C37_Step ==
  /\ RejectStep => globalState' = globalState
  /\ (run.pc = "ensureBuilt" /\ inv.pc = "done" /\ inv.result = "threw") =>
       /\ run'.pc = "done"
       /\ run'.result = "threw"
       /\ Count(run'.trace, "spawn") = 0
       /\ Count(run'.trace, "startDebugging") = 0
  /\ (run.pc = "ensureBuilt" \/ run'.pc = "ensureBuilt") =>
       /\ results' = results
       /\ emitted' = << >>
C37_RejectionEndsTheRequest == [][C37_Step]_vars

\* a request has ended by the rejection of the build that followed a
\* configure that succeeded: the build description's time is on record
C37_Witness ==
  /\ run.pc = "done"
  /\ run.result = "threw"
  /\ obs.trace = << "configure", "configure.ok", "build", "build.rejected" >>
  /\ StorageGet(globalState, CmakeKey(getEffectiveProjectRoot), 0) = 1
  /\ results = << >>

(***************************************************************************)
(* C38: a child is spawned, and a debug session is started, only after     *)
(* the request's ensureBuilt for the target has completed and the artifact *)
(* path has been resolved from the code model: at the step that launches,  *)
(* and whenever the request has launched, no configure or build is         *)
(* pending.                                                                *)
(***************************************************************************)
\* the child is spawned or the debug session is started
LaunchStep ==
  run.pc = "getBuildDirectory" /\ run'.pc \in {"process", "startDebugging"}

Launched(r) == Count(r.trace, "spawn") + Count(r.trace, "startDebugging") > 0

C38_Step ==
  /\ LaunchStep =>
       /\ inv.pc = "done"
       /\ inv.result \in {"true", "false"}
       /\ inv.executableNames = << run.executable >>
       /\ run.exePath # "undefined"
       /\ run.exePath = getExecutablePath(getProject, run.executable)
  /\ Launched(run') => inv'.pc = "done"
C38_LaunchAfterEnsureBuilt == [][C38_Step]_vars

\* a child runs the artifact of a target that was configured and built for
\* this request
C38_Witness ==
  /\ run.pc = "process"
  /\ run.exePath = "/b/T"
  /\ obs.trace = << "configure", "configure.ok", "build", "build.ok" >>
  /\ inv.pc = "done"

(***************************************************************************)
(* Vocabulary of the claims on overlapping invocations.                    *)
(***************************************************************************)
\* both invocations were called for the same root, have returned true, and
\* no file was written since the first of them was called
BothReturned ==
  /\ inv.pc = "done" /\ inv.result = "true"
  /\ overlap.inv.pc = "done" /\ overlap.inv.result = "true"
  /\ obs.root = overlap.obs.root
  /\ ~obs.modified /\ ~overlap.obs.modified

\* the invocation with record i and calls seen has every entry it wrote in
\* lastSourceMtimes
EntriesKept(i, seen) ==
  Count(seen.trace, "build.ok") = 1 =>
    \A p \in getSourcePathsForExecutables(getProject, i.executableNames) :
      LET lastMap == StorageGet(globalState, SourceKey(getEffectiveProjectRoot), EmptyMap)
      IN  p \in DOMAIN lastMap /\ lastMap[p] = mtime[p]

\* the calls of configure the two invocations made
ConfigureCalls == Count(obs.trace, "configure") + Count(overlap.obs.trace, "configure")

(***************************************************************************)
(* C31: two ensureBuilt invocations for one project root that overlap at   *)
(* the awaits keep the read-modify-write invariant of the staleness        *)
(* record: once both have returned, lastSourceMtimes holds the entries     *)
(* each of them wrote, and the one advance of the build description's      *)
(* mtime they both saw has caused one configure call in total.             *)
(***************************************************************************)
C31_OverlapKeepsTheRecord ==
  BothReturned =>
    /\ EntriesKept(inv, obs)
    /\ EntriesKept(overlap.inv, overlap.obs)
    /\ ConfigureCalls <= 1

\* the part of C31 that holds: no entry of lastSourceMtimes is lost
C31_NoLostUpdate ==
  BothReturned => EntriesKept(inv, obs) /\ EntriesKept(overlap.inv, overlap.obs)

\* both invocations built, for different targets, and both sets of entries
\* are on record
C31_BothWrote ==
  /\ BothReturned
  /\ Count(obs.trace, "build.ok") = 1
  /\ Count(overlap.obs.trace, "build.ok") = 1
  /\ inv.executableNames = << "T" >>
  /\ overlap.inv.executableNames = << "U" >>

(***************************************************************************)
(* C32: the result store has one writer per key across runs, also when two *)
(* runs that name the same test are started without awaiting the first:    *)
(* while a run that names a test has spawned its child and has not         *)
(* completed, the test's status is running; and once both runs have        *)
(* completed, the output stored for a test they both name, and its status, *)
(* are those of the run that was started last.                             *)
(***************************************************************************)
\* the run has spawned its child and has not yet resumed
InFlight(r) == r.mode = "run" /\ r.pc = "process"
\* the run has written its results
Completed(r) == r.mode = "run" /\ r.pc = "done" /\ Count(r.trace, "appendTestRun") = 1
\* the one of the two requests that was made last
StartedLast == IF run.started > overlap.run.started THEN run ELSE overlap.run

C32_SingleWriterPerKey ==
  /\ \A r \in {run, overlap.run} :
       InFlight(r) => \A k \in RunKeys(r) : StatusOf(results, k) = "running"
  /\ (Completed(run) /\ Completed(overlap.run)) =>
       \A i \in DOMAIN StartedLast.fullNames :
         LET k == testKey(StartedLast.executable, StartedLast.fullNames[i])
         IN  k \in RunKeys(run) \cap RunKeys(overlap.run) =>
               /\ results[k].output = StartedLast.stdout \o "\n" \o StartedLast.stderr
               /\ results[k].status =
                    parseGTestOutput(StartedLast.stdout, StartedLast.stderr,
                                     StartedLast.executable,
                                     StartedLast.fullNames)[i].status


(***************************************************************************)
(* C36.  When a run of n > 1 tests completes, the observers of the store   *)
(* are notified once for the result write and not once per test: the       *)
(* number of 'changed' events emitted between the close of the process and *)
(* the end of the run does not grow with n.  Stated on the step that       *)
(* handles the close of the process: a run of more than one test emits no  *)
(* more events there than a run of one test does.                          *)
(***************************************************************************)
EmittedByClose(fullNames) ==
  Len(<< << "T", "" >> >> \o ChangedEach("T", fullNames))

C36_Step ==
  (CloseStep /\ run.mode = "run" /\ Len(run.fullNames) > 1)
     => Len(emitted') - Len(emitted) <= EmittedByClose(<< "S.a" >>)

C36_NotifiedOncePerRun == [][C36_Step]_vars


(***************************************************************************)
(* C39.  The status 'ignored' is unreachable: whatever run and debug       *)
(* requests are made, no (executable, test) key of the store ever has the  *)
(* status 'ignored', and a key that no run has named reads as 'none' with  *)
(* empty output.  Stated on every step: after it no key reads 'ignored',   *)
(* and a key that had no record before the step and is not named by the    *)
(* request in progress has status 'none' and output "" after it.  The      *)
(* store is empty at the start, so the keys that no run has named are the  *)
(* keys the second part keeps without a record.                            *)
(***************************************************************************)
NamedBy(r, executable, fullName) ==
  /\ r.mode = "run"
  /\ r.executable = executable
  /\ \E i \in DOMAIN r.fullNames : r.fullNames[i] = fullName

C39_Step ==
  \A executable \in Executables, fullName \in TestNames :
    /\ getStatus(results', executable, fullName) # "ignored"
    /\ (/\ Stored(results, testKey(executable, fullName)) = << >>
        /\ ~NamedBy(run', executable, fullName))
         => /\ getStatus(results', executable, fullName) = "none"
            /\ getOutput(results', executable, fullName) = ""

====
